---------------------------- MODULE Spec2Model ----------------------------
(***************************************************************************)
(* A model of the retrieval and generation core of nexusai:                *)
(*   - AIService.stream        (services/ai_service.py)                    *)
(*   - EmbeddingService        (services/embedding_service.py)             *)
(*   - ChunkingService         (services/chunking_service.py)              *)
(*   - VectorStore             (services/vector_store.py)                  *)
(*   - RAGService              (services/rag_service.py)                   *)
(*   - process_files_background (services/background_service.py)           *)
(*   - BackgroundTaskService   (services/background_service.py)            *)
(*   - retry_with_backoff      (utils/retry.py)                            *)
(* Each component has its own variables, initial condition, actions and    *)
(* specification; a component's specification leaves the variables of the  *)
(* other components unchanged.                                             *)
(***************************************************************************)
EXTENDS Integers, Sequences, FiniteSets, TLC

(***************************************************************************)
(* Bounds of the model.                                                    *)
(***************************************************************************)
MaxChunks == 2
MaxHistory == 1
MaxBatch == 3
MaxSentences == 2
MaxBlocks == 3
MaxStore == 2
MaxAdd == 2
MaxTopK == 2
MaxMessages == 3
MaxDocs == 2

(***************************************************************************)
(* The state.                                                              *)
(***************************************************************************)
\* AIService (ai_service.py)
VARIABLES
    providers,          \* AIService.providers: names of the constructed providers
    available,          \* the providers whose is_available() is true
    current_provider,   \* AIService._current_provider
    enable_fallback,    \* stream(): the enable_fallback argument
    pc,                 \* position of the stream() generator
    provider,           \* stream(): the provider chosen as primary
    messages,           \* stream(): the built and trimmed message window
    error_type,         \* stream(): classify_error(e) of the primary's exception
    fallbacks,          \* stream(): the names the fallback loop has still to visit
    started,            \* every provider.stream() call made: <<name, window>>
    out,                \* what the caller has received, in order
    completed           \* the provider whose stream ended without raising, if any

streamVars == <<providers, available, current_provider, enable_fallback, pc,
                provider, messages, error_type, fallbacks, started, out, completed>>

\* EmbeddingService (embedding_service.py)
VARIABLES
    use_cache,      \* EmbeddingService.use_cache
    cache,          \* EmbeddingService._cache: cache key -> vector
    disk_cache,     \* the .npy files of cache_dir: cache key -> vector
    embed_input,    \* the texts of the last embed_text / embed_texts call
    embed_output,   \* the vectors that call returned, in order
    encode_log,     \* the batches that call passed to model.encode
    embed_op,       \* the name of the last call made on the service
    embed_prev      \* the call before it, when that was an embed_text call

embedVars == <<use_cache, cache, disk_cache, embed_input, embed_output, encode_log,
               embed_op, embed_prev>>

\* ChunkingService (chunking_service.py)
VARIABLES
    target_chunk_size,      \* ChunkingService.target_chunk_size
    min_chunk_size,         \* ChunkingService.min_chunk_size
    max_chunk_size,         \* ChunkingService.max_chunk_size
    overlap_tokens,         \* ChunkingService.overlap_tokens
    chunk_pc,               \* position in chunk_text
    paragraphs,             \* chunk_text: the paragraphs of the text
    para_idx,               \* chunk_text: the paragraph the loop is at
    current_chunk_text,     \* chunk_text: the buffer
    current_chunk_start,    \* chunk_text
    chunk_id,               \* chunk_text
    char_position,          \* chunk_text
    chunks                  \* chunk_text: the chunks appended so far

chunkVars == <<target_chunk_size, min_chunk_size, max_chunk_size, overlap_tokens,
               chunk_pc, paragraphs, para_idx, current_chunk_text,
               current_chunk_start, chunk_id, char_position, chunks>>

chunkConfig == <<target_chunk_size, min_chunk_size, max_chunk_size, overlap_tokens>>

\* VectorStore (vector_store.py)
VARIABLES
    faiss,              \* VectorStore._faiss is set: the faiss import succeeded
    embedding_dim,      \* VectorStore.embedding_dim
    vectors,            \* the rows of VectorStore._index, or VectorStore._embeddings
    _texts,             \* VectorStore._texts
    _metadata,          \* VectorStore._metadata
    store_op,           \* the last call made on the store, with its arguments
    store_before,       \* <<vectors, _texts, _metadata>> as that call found them
    store_status,       \* how that call ended: "ok" or "error"
    search_results      \* what the last search returned

storeVars == <<faiss, embedding_dim, vectors, _texts, _metadata, store_op,
               store_before, store_status, search_results>>

\* VectorStore.save and load (vector_store.py)
VARIABLES
    disk,       \* the files written by save: path -> contents
    saved       \* path -> the store as the save that wrote the path found it

persistVars == <<disk, saved>>

\* trim_to_token_budget (ai_service.py)
VARIABLES
    trim_pc,        \* "called" before the function has run, "returned" after
    trim_messages,  \* the messages argument
    trim_budget,    \* the budget argument
    trim_result     \* the list returned

trimVars == <<trim_pc, trim_messages, trim_budget, trim_result>>

\* RAGService (rag_service.py) and process_files_background; the service's
\* store is the VectorStore above.
VARIABLES
    indexed_sources,    \* RAGService._indexed_sources: source -> chunk count
    rag_op,             \* the last call made, with its arguments
    rag_before,         \* <<vectors, _texts, _metadata, indexed_sources>> as it found them
    rag_status,         \* how that call ended: "ok" or "error" (it raised)
    rag_result,         \* what that call returned
    rag_embed_calls,    \* the calls that call made on the embedder, in order
    ever_indexed        \* an ingestion has added entries since construction

ragVars == <<indexed_sources, rag_op, rag_before, rag_status, rag_result,
             rag_embed_calls, ever_indexed>>

\* retry_with_backoff (utils/retry.py): one decorated function and one call of
\* its wrapper at a time.
VARIABLES
    retry_cfg,          \* the arguments the decorator was given
    retry_pc,           \* "idle", "try" (the wrapper is about to call func), "done"
    attempt,            \* wrapper: the loop variable
    last_exception,     \* wrapper: last_exception
    retry_log,          \* what the wrapper has done, in order: calls of func,
                        \* calls of on_retry, sleeps
    retry_outcome       \* how the wrapper ended: what it returned or raised

retryVars == <<retry_cfg, retry_pc, attempt, last_exception, retry_log, retry_outcome>>

\* BackgroundTaskService (background_service.py)
VARIABLES
    _running,       \* BackgroundTaskService._running
    _workers,       \* BackgroundTaskService._workers: the threads started
    _tasks,         \* BackgroundTaskService._tasks: the task_ids in the dict
    _task_queue,    \* BackgroundTaskService._task_queue, oldest item first
    task_objects,   \* the BackgroundTask objects created: task_id -> fields
    worker_pc,      \* position of each worker thread in _worker_loop
    worker_item,    \* _worker_loop: the task_id of the item the worker holds
    clear_pc,       \* position of a clear_completed call: "idle" or "assign"
    clear_kept,     \* clear_completed: the dict built by the comprehension
    executed,       \* per task_id, the workers that have called its func
    status_log      \* per task_id, the values its status has taken, in order

taskVars == <<_running, _workers, _tasks, _task_queue, task_objects, worker_pc,
              worker_item, clear_pc, clear_kept, executed, status_log>>

\* RAGService.index_documents run by several threads on one service and store
\* (rag_service.py, vector_store.py): the locals of each thread's call.
VARIABLES
    idx_pc,         \* position of each thread in index_documents and add
    idx_chunks,     \* index_documents: all_chunks
    idx_pos,        \* index_documents: the chunk the tracking loop is at
    idx_read        \* line 97: the count read for the "+= 1"

concVars == <<idx_pc, idx_chunks, idx_pos, idx_read>>

extraVars == <<retryVars, taskVars, concVars>>

vars == <<streamVars, embedVars, chunkVars, storeVars, persistVars, trimVars, ragVars,
          extraVars>>

\* A step of one component leaves the others as they are.
StreamOnly ==
    UNCHANGED <<embedVars, chunkVars, storeVars, persistVars, trimVars, ragVars, extraVars>>
EmbedOnly ==
    UNCHANGED <<streamVars, chunkVars, storeVars, persistVars, trimVars, ragVars, extraVars>>
ChunkOnly ==
    UNCHANGED <<streamVars, embedVars, storeVars, persistVars, trimVars, ragVars, extraVars>>
StoreOnly ==
    UNCHANGED <<streamVars, embedVars, chunkVars, persistVars, trimVars, ragVars, extraVars>>
PersistOnly == UNCHANGED <<streamVars, embedVars, chunkVars, trimVars, ragVars, extraVars>>
TrimOnly ==
    UNCHANGED <<streamVars, embedVars, chunkVars, storeVars, persistVars, ragVars, extraVars>>
RagOnly == UNCHANGED <<streamVars, embedVars, chunkVars, persistVars, trimVars, extraVars>>
CoreVars == <<streamVars, embedVars, chunkVars, storeVars, persistVars, trimVars, ragVars>>
RetryOnly == UNCHANGED <<CoreVars, taskVars, concVars>>
TaskOnly == UNCHANGED <<CoreVars, retryVars, concVars>>
ConcOnly ==
    UNCHANGED <<streamVars, embedVars, chunkVars, persistVars, trimVars, retryVars,
                taskVars, faiss, embedding_dim, store_op, store_before, store_status,
                search_results, rag_op, rag_before, rag_status, rag_result,
                rag_embed_calls, ever_indexed>>

(***************************************************************************)
(* Generic helpers.                                                        *)
(***************************************************************************)
Range(s) == {s[i] : i \in 1..Len(s)}

SeqsUpTo(S, n) == UNION {[1..k -> S] : k \in 0..n}

RECURSIVE SumSeq(_)
SumSeq(s) == IF s = <<>> THEN 0 ELSE Head(s) + SumSeq(Tail(s))

Reverse(s) == [i \in 1..Len(s) |-> s[Len(s) + 1 - i]]

\* s[-n:] of Python
LastN(s, n) == IF Len(s) <= n THEN s ELSE SubSeq(s, Len(s) - n + 1, Len(s))

(***************************************************************************)
(*                      AIService  (ai_service.py)                         *)
(***************************************************************************)

\* The order of AIService.providers (a dict filled groq first, gemini second).
ProviderOrder == <<"groq", "gemini">>

\* An exception message, as the set of the substrings classify_error looks for
\* that occur in it.
ErrorTexts ==
    { {"429"}, {"rate"}, {"limit"}, {"api_key"}, {"invalid"}, {"auth"}, {"401"},
      {"timeout"}, {"timed out"}, {"blocked"}, {"safety"}, {"filter"},
      {"model", "not found"}, {"model", "unavailable"}, {"model"},
      {"network"}, {"connect"}, {},
      {"rate", "auth"}, {"invalid", "timeout"}, {"blocked", "connect"} }

classify_error(error) ==
    IF "rate" \in error \/ "limit" \in error \/ "429" \in error
        THEN "rate_limit"
    ELSE IF "api_key" \in error \/ "invalid" \in error \/ "auth" \in error
            \/ "401" \in error
        THEN "auth_error"
    ELSE IF "timeout" \in error \/ "timed out" \in error
        THEN "timeout"
    ELSE IF "blocked" \in error \/ "safety" \in error \/ "filter" \in error
        THEN "content_blocked"
    ELSE IF "model" \in error /\ ("not found" \in error \/ "unavailable" \in error)
        THEN "model_error"
    ELSE IF "network" \in error \/ "connect" \in error
        THEN "network_error"
    ELSE "unknown"

MAX_TOKEN_BUDGET == 8000
MAX_HISTORY_KEPT == 10

\* A text is modelled by an identity and its number of characters.
estimate_tokens(text) == text.chars \div 4

TotalTokens(msgs) == SumSeq([i \in 1..Len(msgs) |-> estimate_tokens(msgs[i].content)])

\* list.insert(i, x) of Python, for 0 <= i <= len(s).
InsertAt(s, i, x) == SubSeq(s, 1, i) \o <<x>> \o SubSeq(s, i + 1, Len(s))

\* The same loop without the test against the budget.
KeepRecent_All(msgs, result, used, budget) == result \o msgs

\* The loop of trim_to_token_budget over reversed(messages), lines 87-92: msgs
\* are the messages still to visit (the last one is visited first), result
\* and used are the loop's result and current_tokens.
RECURSIVE KeepRecent(_, _, _, _)
KeepRecent(msgs, result, used, budget) ==
    IF msgs = <<>> THEN result
    ELSE LET msg == msgs[Len(msgs)]
             msg_tokens == estimate_tokens(msg.content)
         IN IF used + msg_tokens <= budget
               THEN KeepRecent(SubSeq(msgs, 1, Len(msgs) - 1),
                               InsertAt(result, IF result # <<>> THEN 1 ELSE 0, msg),
                               used + msg_tokens, budget)
               ELSE result

trim_to_token_budget(msgs, budget) ==
    IF msgs = <<>> THEN msgs
    ELSE IF TotalTokens(msgs) <= budget THEN msgs
    ELSE IF msgs[1].role = "system"
        THEN KeepRecent(Tail(msgs), <<msgs[1]>>,
                        estimate_tokens(msgs[1].content), budget)
        ELSE KeepRecent(msgs, <<>>, 0, budget)

NoText == [id |-> "", chars |-> 0]

\* AIService._build_messages; an absent or empty system_prompt is NoText.
build_messages(prompt, history, system_prompt) ==
    (IF system_prompt # NoText
        THEN <<[role |-> "system", content |-> system_prompt]>> ELSE <<>>)
    \o LastN(history, MAX_HISTORY_KEPT)
    \o <<[role |-> "user", content |-> prompt]>>

\* AIService.get_available_providers
get_available_providers ==
    SelectSeq(ProviderOrder, LAMBDA n : n \in providers /\ n \in available)

\* AIService.__init__: the provider that is current after construction.
DefaultProvider(keys) ==
    IF "groq" \in keys THEN "groq" ELSE IF "gemini" \in keys THEN "gemini" ELSE "none"


\* stream(), lines 563-572: the provider the call streams from first.
ChoosePrimary(enable) ==
    IF current_provider \in providers /\ current_provider \in available
        THEN current_provider
    ELSE IF enable
        THEN LET others == SelectSeq(get_available_providers,
                                     LAMBDA n : n # current_provider)
             IN IF others = <<>> THEN "none" ELSE others[1]
    ELSE "none"

\* The same without the test against _current_provider.
FallbackNames_NoSkip(enable) == IF enable THEN get_available_providers ELSE <<>>

\* stream(), lines 597-601: the names the fallback loop visits, in order.
FallbackNames(enable) ==
    IF enable
        THEN SelectSeq(get_available_providers, LAMBDA n : n # current_provider)
        ELSE <<>>

\* stream(), lines 618-628: the message yielded once every attempt has failed.
TerminalMessage(etype) ==
    IF etype \in {"rate_limit", "auth_error", "content_blocked", "timeout"}
        THEN etype ELSE "generic"

\* One item of the stream the caller sees; attempt is the provider.stream() call
\* it came from (1 is the primary), 0 for the service's own messages.
ChunkItem(src, n) == [src |-> src, kind |-> "chunk", msg |-> "", attempt |-> n]
ErrorItem(etype) ==
    [src |-> "service", kind |-> "error", msg |-> TerminalMessage(etype), attempt |-> 0]
NoProviderItem == [src |-> "service", kind |-> "error", msg |-> "no_provider", attempt |-> 0]

Texts(id, lens) == {[id |-> id, chars |-> n] : n \in lens}
Prompts == Texts("prompt", {4, 16000})
SystemPrompts == {NoText} \cup Texts("system", {20000})
HistoryMessages ==
    {[role |-> r, content |-> c] : r \in {"user", "assistant"},
                                   c \in Texts("turn", {8, 20000})}

StreamInit ==
    /\ providers \in SUBSET {"groq", "gemini"}
    /\ available \in SUBSET providers
    /\ current_provider = DefaultProvider(providers)
    /\ enable_fallback = TRUE
    /\ pc = "idle"
    /\ provider = "none"
    /\ messages = <<>>
    /\ error_type = "none"
    /\ fallbacks = <<>>
    /\ started = <<>>
    /\ out = <<>>
    /\ completed = "none"

\* The current_provider setter, lines 493-496.
SetCurrentProvider(value) ==
    /\ StreamOnly
    /\ pc = "idle"
    /\ value \in providers
    /\ current_provider' = value
    /\ UNCHANGED <<providers, available, enable_fallback, pc, provider, messages,
                   error_type, fallbacks, started, out, completed>>

\* stream() up to the first provider.stream() call, lines 560-589.
StartStream(prompt, history, system_prompt, enable) ==
    /\ StreamOnly
    /\ pc = "idle"
    /\ enable_fallback' = enable
    /\ provider' = ChoosePrimary(enable)
    /\ error_type' = "none"
    /\ fallbacks' = <<>>
    /\ IF provider' = "none"
          THEN /\ out' = <<NoProviderItem>>
               /\ messages' = <<>>
               /\ started' = <<>>
               /\ pc' = "done"
          ELSE /\ messages' = trim_to_token_budget(
                                  build_messages(prompt, history, system_prompt),
                                  MAX_TOKEN_BUDGET)
               /\ started' = <<[name |-> provider', window |-> messages']>>
               /\ out' = <<>>
               /\ pc' = "primary"
    /\ completed' = "none"
    /\ UNCHANGED <<providers, available, current_provider>>

\* The primary provider's stream yields one chunk, which stream() passes on.
PrimaryYield ==
    /\ StreamOnly
    /\ pc = "primary"
    /\ Len(out) < MaxChunks
    /\ out' = Append(out, ChunkItem(provider, 1))
    /\ UNCHANGED <<providers, available, current_provider, enable_fallback, pc,
                   provider, messages, error_type, fallbacks, started, completed>>

\* The primary provider's stream ends, line 590.
PrimaryComplete ==
    /\ StreamOnly
    /\ pc = "primary"
    /\ pc' = "done"
    /\ completed' = provider
    /\ UNCHANGED <<providers, available, current_provider, enable_fallback,
                   provider, messages, error_type, fallbacks, started, out>>

\* The same ending without a message once every attempt has failed.
NextAttempt_Silent(names, etype) ==
    IF names = <<>>
        THEN /\ pc' = "done"
             /\ fallbacks' = <<>>
             /\ UNCHANGED <<started, out>>
        ELSE /\ started' = Append(started, [name |-> Head(names), window |-> messages])
             /\ fallbacks' = Tail(names)
             /\ pc' = "fallback"
             /\ UNCHANGED out

\* The fallback loop of lines 597-616, entered with the names still to visit:
\* start the next fallback provider, or yield the terminal message (618-628).
NextAttempt(names, etype) ==
    IF names = <<>>
        THEN /\ out' = Append(out, ErrorItem(etype))
             /\ pc' = "done"
             /\ fallbacks' = <<>>
             /\ UNCHANGED started
        ELSE /\ started' = Append(started, [name |-> Head(names), window |-> messages])
             /\ fallbacks' = Tail(names)
             /\ pc' = "fallback"
             /\ UNCHANGED out

\* The primary provider's stream raises e, lines 592-601.
PrimaryRaise(e) ==
    /\ StreamOnly
    /\ pc = "primary"
    /\ error_type' = classify_error(e)
    /\ NextAttempt(FallbackNames(enable_fallback), error_type')
    /\ UNCHANGED <<providers, available, current_provider, enable_fallback,
                   provider, messages, completed>>

\* The fallback provider's stream yields one chunk, lines 606-611.
FallbackYield ==
    /\ StreamOnly
    /\ pc = "fallback"
    /\ Len(out) < 2 * MaxChunks
    /\ out' = Append(out, ChunkItem(started[Len(started)].name, Len(started)))
    /\ UNCHANGED <<providers, available, current_provider, enable_fallback, pc,
                   provider, messages, error_type, fallbacks, started, completed>>

\* The fallback provider's stream ends: stream() returns, lines 612-613.
FallbackComplete ==
    /\ StreamOnly
    /\ pc = "fallback"
    /\ pc' = "done"
    /\ completed' = started[Len(started)].name
    /\ UNCHANGED <<providers, available, current_provider, enable_fallback,
                   provider, messages, error_type, fallbacks, started, out>>

\* The fallback provider's stream raises: the loop continues, lines 614-616.
FallbackRaise ==
    /\ StreamOnly
    /\ pc = "fallback"
    /\ NextAttempt(fallbacks, error_type)
    /\ UNCHANGED <<providers, available, current_provider, enable_fallback,
                   provider, messages, error_type, completed>>

\* The caller has consumed the stream; the service is ready for the next call.
StreamReturn ==
    /\ StreamOnly
    /\ pc = "done"
    /\ pc' = "idle"
    /\ provider' = "none"
    /\ messages' = <<>>
    /\ error_type' = "none"
    /\ fallbacks' = <<>>
    /\ started' = <<>>
    /\ out' = <<>>
    /\ completed' = "none"
    /\ UNCHANGED <<providers, available, current_provider, enable_fallback>>

StreamNext ==
    \/ \E v \in {"groq", "gemini"} : SetCurrentProvider(v)
    \/ \E p \in Prompts, h \in SeqsUpTo(HistoryMessages, MaxHistory),
          s \in SystemPrompts, en \in BOOLEAN : StartStream(p, h, s, en)
    \/ PrimaryYield
    \/ PrimaryComplete
    \/ \E e \in ErrorTexts : PrimaryRaise(e)
    \/ FallbackYield
    \/ FallbackComplete
    \/ FallbackRaise
    \/ StreamReturn

(***************************************************************************)
(* Claims about AIService.stream.                                          *)
(***************************************************************************)
ChunksOf(n) == {i \in 1..Len(out) : out[i].kind = "chunk" /\ out[i].attempt = n}
AllChunks == {i \in 1..Len(out) : out[i].kind = "chunk"}
PrimaryFailed == error_type # "none"
PrimaryFailedMidStream == PrimaryFailed /\ ChunksOf(1) # {}
PrimaryFailedEarly == PrimaryFailed /\ ChunksOf(1) = {}
OtherAvailable == \E n \in providers \cap available : n # current_provider

\* C1: once the primary's stream has raised after yielding at least one chunk,
\* no second provider.stream() call is made, no chunk of another attempt reaches
\* the caller, and the finished stream is the primary's chunks followed by the
\* terminal error message.
C1_NoFallbackAfterPartial ==
    PrimaryFailedMidStream =>
        /\ Len(started) = 1
        /\ AllChunks = ChunksOf(1)
        /\ pc = "done" =>
              /\ out[Len(out)] = ErrorItem(error_type)
              /\ AllChunks = 1..(Len(out) - 1)

\* C2 as stated: when the primary failed before yielding any chunk, the finished
\* call has made exactly one fallback attempt, with the same window, and all the
\* chunks the caller received come from one provider.
C2_ExactlyOneFallback ==
    (pc = "done" /\ PrimaryFailedEarly) =>
        /\ Len(started) = 2
        /\ started[2].window = started[1].window
        /\ Cardinality({out[i].attempt : i \in AllChunks}) <= 1

\* C2 as amended: when the primary failed before yielding any chunk, at most one
\* fallback attempt is made: exactly one when enable_fallback is set and an
\* available provider other than current_provider exists, none otherwise. Every
\* attempt gets the same window and all the chunks the caller receives come from
\* one attempt (so from one provider).
C2_AtMostOneFallback ==
    PrimaryFailedEarly =>
        /\ Len(started) <= 2
        /\ \A i \in 1..Len(started) : started[i].window = started[1].window
        /\ Cardinality({out[i].attempt : i \in AllChunks}) <= 1
        /\ Cardinality({out[i].src : i \in AllChunks}) <= 1
        /\ pc = "done" =>
              Len(started) = IF enable_fallback /\ OtherAvailable THEN 2 ELSE 1

\* C2's case: the primary failed with nothing yielded, the one fallback attempt
\* was made and its chunks reached the caller.
C2_Witness ==
    /\ pc = "done"
    /\ PrimaryFailedEarly
    /\ Len(started) = 2
    /\ started[2].name # started[1].name
    /\ ChunksOf(2) # {}

\* C3: a fallback provider is started only after an error classified as rate
\* limit, timeout, network error or model unavailable; after an auth error or a
\* content block no fallback provider is started.
C3_FallbackOnlyOnRetryable ==
    /\ Len(started) > 1 =>
          error_type \in {"rate_limit", "timeout", "network_error", "model_error"}
    /\ error_type \in {"auth_error", "content_blocked"} => Len(started) <= 1

ErrorItems == {i \in 1..Len(out) : out[i].kind = "error"}

\* C22: a finished call in which every provider.stream() call raised has given
\* the caller exactly one error message, as the last item, after the chunks
\* already yielded; a call in which a provider's stream ended without raising
\* has given no error message; no error message is yielded while a provider
\* is still streaming, so nothing follows it.
C22_OneTerminalError ==
    /\ pc \in {"primary", "fallback"} => ErrorItems = {}
    /\ (pc = "done" /\ started # <<>>) =>
          IF completed = "none"
             THEN /\ ErrorItems = {Len(out)}
                  /\ out[Len(out)] = ErrorItem(error_type)
                  /\ AllChunks = 1..(Len(out) - 1)
             ELSE ErrorItems = {}

\* C22's case: the primary and a fallback both raised after yielding chunks,
\* and the call ended with the one error message after those chunks.
C22_Witness ==
    /\ pc = "done"
    /\ completed = "none"
    /\ Len(started) = 2
    /\ ChunksOf(1) # {}
    /\ ChunksOf(2) # {}
    /\ ErrorItems = {Len(out)}

\* C29: within one stream() call no provider's stream is started twice.
C29_NoProviderStartedTwice ==
    \A i, j \in 1..Len(started) : i # j => started[i].name # started[j].name

(***************************************************************************)
(* trim_to_token_budget on its own: the arguments are drawn when the       *)
(* function is called, and one step runs it.                               *)
(***************************************************************************)
TrimRoles == {"system", "user", "assistant"}
TrimChars == {8, 16, 24}
TrimBudgets == {4, 7, MAX_TOKEN_BUDGET}

\* The message lists of the model: the content of the i-th message is text i.
TrimInputs ==
    UNION {{[i \in 1..n |-> [role |-> r[i], content |-> [id |-> i, chars |-> c[i]]]] :
               r \in [1..n -> TrimRoles], c \in [1..n -> TrimChars]} :
           n \in 0..MaxMessages}

TrimInit ==
    /\ trim_pc = "called"
    /\ trim_messages \in TrimInputs
    /\ trim_budget \in TrimBudgets
    /\ trim_result = <<>>

\* trim_to_token_budget, lines 64-96.
TrimToTokenBudget ==
    /\ trim_pc = "called"
    /\ trim_pc' = "returned"
    /\ trim_result' = trim_to_token_budget(trim_messages, trim_budget)
    /\ UNCHANGED <<trim_messages, trim_budget>>
    /\ TrimOnly

TrimNext == TrimToTokenBudget

(***************************************************************************)
(* Claims about trim_to_token_budget and the window of AIService.stream.   *)
(***************************************************************************)
TrimReturned == trim_pc = "returned"
StartsWithSystem(msgs) == msgs # <<>> /\ msgs[1].role = "system"
NonSystem(msgs) == SelectSeq(msgs, LAMBDA m : m.role # "system")
IsSuffix(a, b) ==
    Len(a) <= Len(b) /\ a = SubSeq(b, Len(b) - Len(a) + 1, Len(b))

SystemOverBudget ==
    /\ StartsWithSystem(trim_messages)
    /\ estimate_tokens(trim_messages[1].content) > trim_budget

C14_KeepsSystemAndRecent ==
    TrimReturned =>
        /\ StartsWithSystem(trim_messages) =>
              (trim_result # <<>> /\ trim_result[1] = trim_messages[1])
        /\ IsSuffix(NonSystem(trim_result), NonSystem(trim_messages))

\* C15: the window passed to a provider ends with a user message whose content
\* is the prompt of the call.
C15_WindowEndsWithPrompt ==
    \A i \in 1..Len(started) :
        /\ started[i].window # <<>>
        /\ started[i].window[Len(started[i].window)].role = "user"
        /\ started[i].window[Len(started[i].window)].content.id = "prompt"

(***************************************************************************)
(*               EmbeddingService  (embedding_service.py)                  *)
(***************************************************************************)

MODEL_NAME == "all-MiniLM-L6-v2"
EmbedTextSet == {"alpha", "beta", "gamma"}

\* model.encode of one text: the embedding of that text.
Encode(text) == [embedding_of |-> text]

\* Python's None, where a vector is expected.
None == [embedding_of |-> "<None>"]

\* _get_cache_key: the digest of "<model_name>:<text>", one key per pair.
get_cache_key(text) == <<MODEL_NAME, text>>

\* _get_cached_embedding: the vector found, or None; a hit on disk is copied
\* into the memory cache (mem is the memory cache as it is at the lookup).
CachedEmbedding(mem, text) ==
    IF ~use_cache THEN None
    ELSE IF get_cache_key(text) \in DOMAIN mem THEN mem[get_cache_key(text)]
    ELSE IF get_cache_key(text) \in DOMAIN disk_cache
        THEN disk_cache[get_cache_key(text)]
    ELSE None

\* The memory cache after _get_cached_embedding(text) for every text of texts.
AfterLookups(mem, texts) ==
    IF ~use_cache THEN mem
    ELSE [k \in DOMAIN mem \cup
                {get_cache_key(t) : t \in {x \in Range(texts) :
                                             get_cache_key(x) \in DOMAIN disk_cache}}
            |-> IF k \in DOMAIN mem THEN mem[k] ELSE disk_cache[k]]

\* The same with nothing stored.
AfterCaching_Nothing(store, texts) == store

\* _cache_embedding for every text of texts, on one of the two stores.
AfterCaching(store, texts) ==
    IF ~use_cache THEN store
    ELSE [k \in DOMAIN store \cup {get_cache_key(t) : t \in Range(texts)}
            |-> IF \E t \in Range(texts) : get_cache_key(t) = k
                   THEN Encode((CHOOSE t \in Range(texts) : get_cache_key(t) = k))
                   ELSE store[k]]

\* list.index: the first position of x in s.
IndexOf(s, x) == CHOOSE i \in 1..Len(s) : s[i] = x /\ \A j \in 1..(i - 1) : s[j] # x

\* list.sort(key=lambda x: x[0]): a stable sort of <<index, vector>> pairs.
RECURSIVE SortByIndex(_, _, _)
SortByIndex(pairs, k, n) ==
    IF k > n THEN <<>>
    ELSE SelectSeq(pairs, LAMBDA e : e[1] = k) \o SortByIndex(pairs, k + 1, n)

\* embed_texts, lines 159-170: the positions found in the cache and the others.
HitPositions(texts) ==
    SelectSeq([i \in 1..Len(texts) |-> i],
              LAMBDA i : CachedEmbedding(cache, texts[i]) # None)
MissPositions(texts) ==
    SelectSeq([i \in 1..Len(texts) |-> i],
              LAMBDA i : CachedEmbedding(cache, texts[i]) = None)

\* embed_texts, line 185: the original index recorded for the j-th new embedding.
RecordedIndex(texts_to_embed, indices_to_embed, j) ==
    indices_to_embed[IndexOf(texts_to_embed, texts_to_embed[j])]

\* embed_texts, lines 156-189: the array returned.
embed_texts_result(texts) ==
    IF texts = <<>> THEN <<>>
    ELSE LET hits == HitPositions(texts)
             indices_to_embed == MissPositions(texts)
             texts_to_embed == [j \in 1..Len(indices_to_embed) |->
                                    texts[indices_to_embed[j]]]
             cached == [j \in 1..Len(hits) |->
                            <<hits[j], CachedEmbedding(cache, texts[hits[j]])>>]
             fresh == [j \in 1..Len(texts_to_embed) |->
                            <<RecordedIndex(texts_to_embed, indices_to_embed, j),
                              Encode(texts_to_embed[j])>>]
             sorted == SortByIndex(cached \o fresh, 1, Len(texts))
         IN [i \in 1..Len(sorted) |-> sorted[i][2]]

\* The record kept of an embed_text call: its text, the vector it returned and
\* the batches it passed to model.encode; NoCall when the call was another one.
NoCall == [name |-> "other"]
LastEmbedCall ==
    IF embed_op = "embed_text"
        THEN [name |-> "embed_text", input |-> embed_input,
              output |-> embed_output, encoded |-> encode_log]
        ELSE NoCall

EmbedInit ==
    /\ use_cache \in BOOLEAN
    /\ cache = <<>>
    /\ disk_cache = <<>>
    /\ embed_input = <<>>
    /\ embed_output = <<>>
    /\ encode_log = <<>>
    /\ embed_op = "none"
    /\ embed_prev = NoCall

\* embed_text, lines 122-143.
EmbedText(text) ==
    LET cached == CachedEmbedding(cache, text)
    IN /\ EmbedOnly
       /\ embed_input' = <<text>>
       /\ IF cached # None
             THEN /\ embed_output' = <<cached>>
                  /\ cache' = AfterLookups(cache, <<text>>)
                  /\ encode_log' = <<>>
                  /\ UNCHANGED disk_cache
             ELSE /\ embed_output' = <<Encode(text)>>
                  /\ encode_log' = <<(<<text>>)>>
                  /\ cache' = AfterCaching(cache, <<text>>)
                  /\ disk_cache' = AfterCaching(disk_cache, <<text>>)
       /\ embed_op' = "embed_text"
       /\ embed_prev' = LastEmbedCall
       /\ UNCHANGED use_cache

\* embed_texts, lines 145-189.
EmbedTexts(texts) ==
    LET indices_to_embed == MissPositions(texts)
        texts_to_embed == [j \in 1..Len(indices_to_embed) |-> texts[indices_to_embed[j]]]
    IN /\ EmbedOnly
       /\ embed_input' = texts
       /\ embed_output' = embed_texts_result(texts)
       /\ encode_log' = IF texts_to_embed = <<>> THEN <<>> ELSE <<texts_to_embed>>
       /\ cache' = AfterCaching(AfterLookups(cache, texts), texts_to_embed)
       /\ disk_cache' = AfterCaching(disk_cache, texts_to_embed)
       /\ embed_op' = "embed_texts"
       /\ embed_prev' = NoCall
       /\ UNCHANGED use_cache

\* clear_cache, lines 210-216.
ClearCache ==
    /\ EmbedOnly
    /\ cache' = <<>>
    /\ disk_cache' = <<>>
    /\ embed_op' = "clear_cache"
    /\ embed_prev' = NoCall
    /\ UNCHANGED <<use_cache, embed_input, embed_output, encode_log>>

\* A new EmbeddingService on the same cache_dir (get_embedding_service after a
\* restart): the memory cache is empty, the files are still there.
NewEmbeddingService ==
    /\ EmbedOnly
    /\ cache' = <<>>
    /\ embed_op' = "new"
    /\ embed_prev' = NoCall
    /\ UNCHANGED <<use_cache, disk_cache, embed_input, embed_output, encode_log>>

EmbedNext ==
    \/ \E t \in EmbedTextSet : EmbedText(t)
    \/ \E ts \in SeqsUpTo(EmbedTextSet, MaxBatch) : EmbedTexts(ts)
    \/ ClearCache
    \/ NewEmbeddingService

\* C4: embed_texts returns one vector per input text, and the vector at position
\* i is the embedding of the i-th text.
C4_OrderPreserved ==
    /\ Len(embed_output) = Len(embed_input)
    /\ \A i \in 1..Len(embed_input) :
          i <= Len(embed_output) => embed_output[i] = Encode(embed_input[i])

\* The last two calls were embed_text calls with the same text.
SameTextTwice ==
    /\ embed_op = "embed_text"
    /\ embed_prev.name = "embed_text"
    /\ embed_prev.input = embed_input

\* C16: with caching enabled, two embed_text calls in a row with the same text
\* return the same vector and pass at most one batch to model.encode between
\* them; a call that finds the text in the cache encodes nothing.
C16_CacheIdempotent ==
    (use_cache /\ SameTextTwice) =>
        /\ embed_output = embed_prev.output
        /\ Len(embed_prev.encoded) + Len(encode_log) <= 1
        /\ encode_log = <<>>

\* C16's case: the first call encoded the text and the second got it from the
\* cache.
C16_Witness ==
    /\ use_cache
    /\ SameTextTwice
    /\ Len(embed_prev.encoded) = 1
    /\ encode_log = <<>>
    /\ embed_output = <<Encode(embed_input[1])>>

(***************************************************************************)
(*                ChunkingService  (chunking_service.py)                   *)
(*                                                                         *)
(* A document is a sequence of blocks separated by blank lines. A block is *)
(* a sequence of sentences, each ending in '.', '!' or '?' and separated   *)
(* by one space; a block with no sentence is white space only. A sentence  *)
(* is its number of characters. A text built by the chunker is the         *)
(* sequence of the sentences in it and its number of characters.           *)
(***************************************************************************)

EmptyText == [sents |-> <<>>, chars |-> 0]

\* count_tokens without tiktoken, line 65: about four characters per token.
count_tokens(text) == text.chars \div 4

\* The i-th paragraph of a list of blocks as a text: its sentences joined by " ".
ParagraphText(blocks, i) ==
    [sents |-> [j \in 1..Len(blocks[i]) |->
                    [para |-> i, idx |-> j, chars |-> blocks[i][j]]],
     chars |-> SumSeq(blocks[i]) + (Len(blocks[i]) - 1)]

\* _split_into_paragraphs, lines 74-77: the blocks that are not white space only.
split_into_paragraphs(doc) ==
    LET kept == SelectSeq(doc, LAMBDA b : b # <<>>)
    IN [i \in 1..Len(kept) |-> ParagraphText(kept, i)]

\* a + sep + b, sep being a separator of n characters.
Join(a, n, b) == [sents |-> a.sents \o b.sents, chars |-> a.chars + n + b.chars]

\* _get_overlap_text, lines 156-162: the loop over reversed(sentences), at the
\* k-th sentence from the start, with the overlap text built so far.
RECURSIVE OverlapLoop(_, _, _, _)
OverlapLoop(sentences, k, overlap_text, limit) ==
    IF k = 0 THEN overlap_text
    ELSE LET sentence == [sents |-> <<sentences[k]>>, chars |-> sentences[k].chars]
             test_text == IF overlap_text.chars > 0
                             THEN Join(sentence, 1, overlap_text)
                             ELSE sentence
         IN IF count_tokens(test_text) <= limit
               THEN OverlapLoop(sentences, k - 1, test_text, limit)
               ELSE overlap_text

\* _get_overlap_text, lines 148-164.
get_overlap_text(text) ==
    IF text.chars = 0 THEN EmptyText
    ELSE OverlapLoop(text.sents, Len(text.sents), EmptyText, overlap_tokens)

\* The Chunk appended at lines 110-117 and 136-143.
MakeChunk(text, start, end, id) ==
    [text |-> text, start_idx |-> start, end_idx |-> end, chunk_id |-> id,
     token_count |-> count_tokens(text)]

\* chunk_text, line 108: adding para to the buffer would exceed max_chunk_size.
Overflows(para) ==
    /\ current_chunk_text.chars > 0
    /\ count_tokens(current_chunk_text) + count_tokens(para) > max_chunk_size

\* chunk_text, line 109: the buffer is closed as a chunk.
ClosesChunk == count_tokens(current_chunk_text) >= min_chunk_size

\* chunk_text, line 135: the last buffer is appended as a chunk.
EmitsLast ==
    /\ current_chunk_text.chars > 0
    /\ count_tokens(current_chunk_text) >= min_chunk_size

\* The configurations: <<target, min, max, overlap>>, in tokens.
ChunkConfigs == { <<2, 1, 3, 0>>, <<3, 2, 4, 0>>, <<4, 3, 6, 1>> }
SentenceChars == {3, 9, 14}
Blocks == SeqsUpTo(SentenceChars, MaxSentences)
Documents == SeqsUpTo(Blocks, MaxBlocks)

ChunkInit ==
    /\ \E c \in ChunkConfigs :
          /\ target_chunk_size = c[1]
          /\ min_chunk_size = c[2]
          /\ max_chunk_size = c[3]
          /\ overlap_tokens = c[4]
    /\ chunk_pc = "idle"
    /\ paragraphs = <<>>
    /\ para_idx = 1
    /\ current_chunk_text = EmptyText
    /\ current_chunk_start = 0
    /\ chunk_id = 0
    /\ char_position = 0
    /\ chunks = <<>>

\* chunk_text, lines 90-101, called with one of the documents.
ChunkTextStart ==
    /\ ChunkOnly
    /\ chunk_pc = "idle"
    /\ \E doc \in Documents : paragraphs' = split_into_paragraphs(doc)
    /\ chunk_pc' = IF paragraphs' = <<>> THEN "done" ELSE "loop"
    /\ para_idx' = 1
    /\ current_chunk_text' = EmptyText
    /\ current_chunk_start' = 0
    /\ chunk_id' = 0
    /\ char_position' = 0
    /\ chunks' = <<>>
    /\ UNCHANGED chunkConfig

\* chunk_text, lines 103-132: one iteration of the loop over the paragraphs.
ChunkParagraph ==
    /\ ChunkOnly
    /\ chunk_pc = "loop"
    /\ para_idx <= Len(paragraphs)
    /\ LET para == paragraphs[para_idx]
       IN /\ IF Overflows(para)
                THEN /\ IF ClosesChunk
                           THEN /\ chunks' = Append(chunks,
                                        MakeChunk(current_chunk_text, current_chunk_start,
                                                  char_position, chunk_id))
                                /\ chunk_id' = chunk_id + 1
                           ELSE UNCHANGED <<chunks, chunk_id>>
                     /\ LET overlap_text == get_overlap_text(current_chunk_text)
                        IN current_chunk_text' =
                               IF overlap_text.chars > 0
                                  THEN Join(overlap_text, 2, para) ELSE para
                     /\ current_chunk_start' = char_position
                ELSE /\ IF current_chunk_text.chars > 0
                           THEN /\ current_chunk_text' = Join(current_chunk_text, 2, para)
                                /\ UNCHANGED current_chunk_start
                           ELSE /\ current_chunk_text' = para
                                /\ current_chunk_start' = char_position
                     /\ UNCHANGED <<chunks, chunk_id>>
          /\ char_position' = char_position + para.chars + 2
    /\ para_idx' = para_idx + 1
    /\ UNCHANGED <<chunkConfig, chunk_pc, paragraphs>>

\* chunk_text, lines 134-146: after the loop.
ChunkTextFinish ==
    /\ ChunkOnly
    /\ chunk_pc = "loop"
    /\ para_idx > Len(paragraphs)
    /\ chunks' = IF EmitsLast
                    THEN Append(chunks, MakeChunk(current_chunk_text, current_chunk_start,
                                                  char_position, chunk_id))
                    ELSE chunks
    /\ chunk_pc' = "done"
    /\ UNCHANGED <<chunkConfig, paragraphs, para_idx, current_chunk_text,
                   current_chunk_start, chunk_id, char_position>>

\* chunk_text has returned: its locals are gone, the service is ready for the
\* next text.
ChunkTextReturn ==
    /\ ChunkOnly
    /\ chunk_pc = "done"
    /\ chunk_pc' = "idle"
    /\ paragraphs' = <<>>
    /\ para_idx' = 1
    /\ current_chunk_text' = EmptyText
    /\ current_chunk_start' = 0
    /\ chunk_id' = 0
    /\ char_position' = 0
    /\ chunks' = <<>>
    /\ UNCHANGED chunkConfig

\* Configurations a caller can construct the service with, whether or not
\* min <= target <= max and overlap < min hold: __init__ (lines 47-50) stores
\* its arguments as they are given.
AnyChunkConfigs ==
    ChunkConfigs \cup { <<2, 4, 3, 0>>, <<4, 1, 3, 0>>, <<2, 1, 3, 1>> }

\* ChunkingService.__init__, lines 31-58, with any of these configurations.
ChunkInitAny ==
    /\ \E c \in AnyChunkConfigs :
          /\ target_chunk_size = c[1]
          /\ min_chunk_size = c[2]
          /\ max_chunk_size = c[3]
          /\ overlap_tokens = c[4]
    /\ chunk_pc = "idle"
    /\ paragraphs = <<>>
    /\ para_idx = 1
    /\ current_chunk_text = EmptyText
    /\ current_chunk_start = 0
    /\ chunk_id = 0
    /\ char_position = 0
    /\ chunks = <<>>

ChunkNext ==
    \/ ChunkTextStart
    \/ ChunkParagraph
    \/ ChunkTextFinish
    \/ ChunkTextReturn

(***************************************************************************)
(* Claims about ChunkingService.chunk_text.                                *)
(***************************************************************************)
\* The text holds every sentence of the i-th paragraph.
HoldsParagraph(text, i) ==
    \A j \in 1..Len(paragraphs[i].sents) :
        \E k \in 1..Len(text.sents) : text.sents[k] = paragraphs[i].sents[j]

InSomeChunk(i) == \E c \in 1..Len(chunks) : HoldsParagraph(chunks[c].text, i)
FirstChunkOf(i) == CHOOSE c \in 1..Len(chunks) :
    HoldsParagraph(chunks[c].text, i)
        /\ \A d \in 1..(c - 1) : ~HoldsParagraph(chunks[d].text, i)

\* C5: every paragraph the loop has taken is in a chunk or still in the buffer
\* (a buffer below min_chunk_size is kept, not discarded), and the paragraphs
\* reach the chunks in their original order.
C5_EveryParagraphKept ==
    chunk_pc \in {"loop", "done"} =>
        /\ \A i \in 1..(para_idx - 1) :
              InSomeChunk(i) \/ HoldsParagraph(current_chunk_text, i)
        /\ \A i, j \in 1..(para_idx - 1) :
              (i < j /\ InSomeChunk(i) /\ InSomeChunk(j)) =>
                  FirstChunkOf(i) <= FirstChunkOf(j)

\* C6: chunk_text of a text that is not empty or blank returns at least one
\* chunk, the last of which is the final buffer.
C6_LastChunkEmitted ==
    (chunk_pc = "done" /\ paragraphs # <<>>) =>
        /\ Len(chunks) >= 1
        /\ chunks[Len(chunks)].text = current_chunk_text

\* No paragraph is larger than max_chunk_size by itself.
NoOversizedParagraph ==
    \A i \in 1..Len(paragraphs) : count_tokens(paragraphs[i]) <= max_chunk_size

\* C7: every chunk returned except the last has min_chunk_size <= token_count
\* <= max_chunk_size. Stated for the texts in which no single paragraph exceeds
\* max_chunk_size, which chunk_text is known not to split.
C7_ChunkSizeBound ==
    (chunk_pc = "done" /\ NoOversizedParagraph) =>
        \A c \in 1..(Len(chunks) - 1) :
            /\ min_chunk_size <= chunks[c].token_count
            /\ chunks[c].token_count <= max_chunk_size

\* The configuration the service holds is well formed.
ValidConfig ==
    /\ min_chunk_size <= target_chunk_size
    /\ target_chunk_size <= max_chunk_size
    /\ overlap_tokens < min_chunk_size

\* C21: with a configuration that breaks min <= target <= max or overlap < min,
\* chunk_text never enters its loop over the paragraphs and never holds a
\* chunk: the call is refused before any chunking is done.
C21_InvalidConfigRejected ==
    ~ValidConfig => (chunk_pc # "loop" /\ chunks = <<>>)

(***************************************************************************)
(*                     VectorStore  (vector_store.py)                      *)
(*                                                                         *)
(* A vector is a tuple of integers. The vectors of the model have integer  *)
(* norms, so a normalised vector is kept exactly, as its components times  *)
(* Scale, and a score (a dot product of two normalised vectors) is kept    *)
(* as the score times Scale * Scale. Rounding is not modelled.             *)
(***************************************************************************)
\* The dimension of the model's store.
Dim == 2
Scale == 5
MaxNorm == 5

Dot(a, b) == SumSeq([i \in 1..Len(a) |-> a[i] * b[i]])

\* np.linalg.norm of a vector of the model.
Norm(v) == CHOOSE n \in 0..MaxNorm : n * n = Dot(v, v)

\* add, lines 78-80: a row divided by its norm, a norm of 0 replaced by 1.
NormalizeRow(v) ==
    LET n == IF Norm(v) = 0 THEN 1 ELSE Norm(v)
    IN [i \in 1..Len(v) |-> (v[i] * Scale) \div n]

\* add, lines 90-93: the metadata appended, None being the absent argument.
NoMetadata == <<[source |-> "<None>"]>>
EmptyDict == [source |-> "<unset>"]
MetadataAdded(new_texts, new_metadata) ==
    IF new_metadata = NoMetadata \/ new_metadata = <<>>
        THEN [i \in 1..Len(new_texts) |-> EmptyDict]
        ELSE new_metadata

\* add, lines 82-83: faiss's IndexFlatIP.add refuses rows of another dimension.
IndexRefuses(new_embeddings) ==
    faiss /\ \E i \in 1..Len(new_embeddings) : Len(new_embeddings[i]) # embedding_dim

\* search, lines 133-134 and 126-128: the scores cannot be computed, as the
\* stored rows do not form a matrix or their dimension is not the query's.
ScoresFail(query) == \E i \in 1..Len(vectors) : Len(vectors[i]) # Len(query)

\* search, line 134: the score of every stored row, query being normalised.
Scores(query_normalized) ==
    [i \in 1..Len(vectors) |-> Dot(vectors[i], query_normalized)]

IndexOrders(n) ==
    {p \in [1..n -> 1..n] : \A i, j \in 1..n : i # j => p[i] # p[j]}

\* np.argsort(scores): the positions in ascending order of score; the default
\* sort is not stable, so equal scores come in any order.
ArgSorts(scores) ==
    {p \in IndexOrders(Len(scores)) :
        \A i \in 1..(Len(scores) - 1) : scores[p[i]] <= scores[p[i + 1]]}

Prefix(s, n) == SubSeq(s, 1, IF n < Len(s) THEN n ELSE Len(s))

\* The same without the reversal: the top_k lowest scores.
TopIndices_NotReversed(order, top_k) == Prefix(order, top_k)

\* search, line 135: np.argsort(scores)[::-1][:top_k], for one of the orders
\* argsort may give.
TopIndices(order, top_k) == Prefix(Reverse(order), top_k)

\* search, lines 127-128: IndexFlatIP.search(query, min(top_k, len(_texts))):
\* the k best rows, best first (order: an ascending order of the scores); with
\* fewer than k rows the result is padded with the index -1, here 0.
FaissIndices(order, top_k) ==
    LET k == IF top_k < Len(_texts) THEN top_k ELSE Len(_texts)
        best == Prefix(Reverse(order), k)
    IN best \o [i \in 1..(k - Len(best)) |-> 0]

\* search, line 140: the entries that pass the filter.
Passing(indices, scores, min_score) ==
    SelectSeq(indices, LAMBDA idx : ~(idx < 1 \/ scores[idx] < min_score))

\* search, lines 143-150: the result built for the entry idx.
MakeResult(idx, score) ==
    [idx |-> idx, text |-> _texts[idx], score |-> score,
     metadata |-> IF idx <= Len(_metadata) THEN _metadata[idx] ELSE EmptyDict]

StoreInit ==
    /\ faiss \in BOOLEAN
    /\ embedding_dim = Dim
    /\ vectors = <<>>
    /\ _texts = <<>>
    /\ _metadata = <<>>
    /\ store_op = [name |-> "idle"]
    /\ store_before = <<>>
    /\ store_status = "ok"
    /\ search_results = <<>>

\* add, lines 60-95.
Add(new_texts, new_embeddings, new_metadata) ==
    /\ store_op.name = "idle"
    /\ Len(_texts) + Len(new_texts) <= MaxStore
    /\ Len(vectors) + Len(new_embeddings) <= MaxStore
    /\ store_op' = [name |-> "add", texts |-> new_texts,
                    embeddings |-> new_embeddings, metadata |-> new_metadata]
    /\ store_before' = <<vectors, _texts, _metadata>>
    /\ search_results' = <<>>
    /\ IF new_texts = <<>>
          THEN /\ store_status' = "ok"
               /\ UNCHANGED <<vectors, _texts, _metadata>>
          ELSE IF new_embeddings = <<>> \/ IndexRefuses(new_embeddings)
          THEN /\ store_status' = "error"
               /\ UNCHANGED <<vectors, _texts, _metadata>>
          ELSE /\ store_status' = "ok"
               /\ vectors' = vectors \o [i \in 1..Len(new_embeddings) |->
                                            NormalizeRow(new_embeddings[i])]
               /\ _texts' = _texts \o new_texts
               /\ _metadata' = _metadata \o MetadataAdded(new_texts, new_metadata)
    /\ UNCHANGED <<faiss, embedding_dim>>
    /\ StoreOnly

\* search, lines 97-152.
Search(query_embedding, top_k, min_score) ==
    /\ store_op.name = "idle"
    /\ store_op' = [name |-> "search", query |-> query_embedding,
                    top_k |-> top_k, min_score |-> min_score]
    /\ store_before' = <<vectors, _texts, _metadata>>
    /\ IF Len(_texts) = 0 \/ Norm(query_embedding) = 0
          THEN /\ store_status' = "ok"
               /\ search_results' = <<>>
          ELSE IF ScoresFail(query_embedding)
          THEN /\ store_status' = "error"
               /\ search_results' = <<>>
          ELSE LET scores == Scores(NormalizeRow(query_embedding))
               IN \E order \in ArgSorts(scores) :
                    LET indices == IF faiss THEN FaissIndices(order, top_k)
                                            ELSE TopIndices(order, top_k)
                        kept == Passing(indices, scores, min_score)
                    IN IF \E i \in 1..Len(kept) : kept[i] > Len(_texts)
                          THEN /\ store_status' = "error"
                               /\ search_results' = <<>>
                          ELSE /\ store_status' = "ok"
                               /\ search_results' =
                                     [i \in 1..Len(kept) |->
                                         MakeResult(kept[i], scores[kept[i]])]
    /\ UNCHANGED <<faiss, embedding_dim, vectors, _texts, _metadata>>
    /\ StoreOnly

\* clear, lines 154-164.
Clear ==
    /\ store_op.name = "idle"
    /\ store_op' = [name |-> "clear"]
    /\ store_before' = <<vectors, _texts, _metadata>>
    /\ store_status' = "ok"
    /\ search_results' = <<>>
    /\ vectors' = <<>>
    /\ _texts' = <<>>
    /\ _metadata' = <<>>
    /\ UNCHANGED <<faiss, embedding_dim>>
    /\ StoreOnly

\* The call has returned and the caller has its result.
StoreReturn ==
    /\ store_op.name # "idle"
    /\ store_op' = [name |-> "idle"]
    /\ store_before' = <<>>
    /\ store_status' = "ok"
    /\ search_results' = <<>>
    /\ UNCHANGED <<faiss, embedding_dim, vectors, _texts, _metadata>>
    /\ StoreOnly

\* The arguments of the model's calls.
StoreVectors == { <<1, 0>>, <<3, 4>>, <<0, 0>> }
OtherVectors == { <<1>>, <<1, 0, 0>> }
StoreTexts == {"x", "y"}
GivenMetadata == [source |-> "doc"]
QueryVectors == { <<1, 0>>, <<4, 3>>, <<0, 0>> }
MinScores == { 0, 15, 26 }

\* Calls of add that meet its precondition: as many rows as texts, each of the
\* store's dimension, and metadata absent or one entry per text.
AddCalls ==
    {c \in [texts : SeqsUpTo(StoreTexts, MaxAdd),
            embeddings : SeqsUpTo(StoreVectors, MaxAdd),
            metadata : {NoMetadata} \cup SeqsUpTo({GivenMetadata}, MaxAdd)] :
        /\ Len(c.embeddings) = Len(c.texts)
        /\ c.metadata # NoMetadata => Len(c.metadata) = Len(c.texts)}

\* Any call of add: the rows form a matrix (an ndarray), of any dimension and
\* with any number of rows.
AnyAddCalls ==
    {c \in [texts : SeqsUpTo(StoreTexts, MaxAdd),
            embeddings : SeqsUpTo(StoreVectors, MaxAdd)
                            \cup SeqsUpTo(OtherVectors, MaxAdd),
            metadata : {NoMetadata} \cup SeqsUpTo({GivenMetadata}, MaxAdd)] :
        \A i, j \in 1..Len(c.embeddings) :
            Len(c.embeddings[i]) = Len(c.embeddings[j])}

AddValid == \E c \in AddCalls : Add(c.texts, c.embeddings, c.metadata)
AddAny == \E c \in AnyAddCalls : Add(c.texts, c.embeddings, c.metadata)
SearchAny ==
    \E q \in QueryVectors, k \in 0..MaxTopK, m \in MinScores : Search(q, k, m)

\* The store used as add requires.
StoreNext == AddValid \/ SearchAny \/ Clear \/ StoreReturn

\* The store under any call of add.
StoreAddNext == AddAny \/ SearchAny \/ Clear \/ StoreReturn

(***************************************************************************)
(* Claims about VectorStore.                                               *)
(***************************************************************************)
Searched == store_op.name = "search"
SearchedNonEmpty == Searched /\ Len(store_before[2]) > 0

\* The score of the stored entry idx for the query of the last search.
ScoreOf(idx) == Dot(vectors[idx], NormalizeRow(store_op.query))

Returned == {search_results[i].idx : i \in 1..Len(search_results)}

C9_TiesByInsertionOrder ==
    (Searched /\ store_status = "ok") =>
        /\ \A i, j \in 1..Len(search_results) :
              (i < j /\ search_results[i].score = search_results[j].score)
                  => search_results[i].idx < search_results[j].idx
        /\ \A i \in 1..Len(search_results) :
              \A idx \in (1..Len(vectors)) \ Returned :
                  ScoreOf(idx) = search_results[i].score
                      => search_results[i].idx < idx

\* The arguments of the last add break its precondition.
AddMismatch ==
    \/ \E i \in 1..Len(store_op.embeddings) :
          Len(store_op.embeddings[i]) # embedding_dim
    \/ Len(store_op.embeddings) # Len(store_op.texts)
    \/ /\ store_op.metadata # NoMetadata
       /\ store_op.metadata # <<>>
       /\ Len(store_op.metadata) # Len(store_op.texts)

\* C10: an add of at least one text whose rows are not of the store's
\* dimension, or whose texts, rows and metadata differ in number, ends with an
\* error and leaves the vectors, texts and metadata as they were.
C10_AddRejectsMismatch ==
    (store_op.name = "add" /\ store_op.texts # <<>> /\ AddMismatch) =>
        /\ store_status = "error"
        /\ <<vectors, _texts, _metadata>> = store_before

(***************************************************************************)
(*            VectorStore.save and VectorStore.load                        *)
(***************************************************************************)
\* The path given to save and load, and the path of the faiss index file that
\* save writes next to it (line 178).
StorePath == "store.pkl"
IndexPath(path) == path \o ".faiss"

\* save, lines 170-182: the dict that is pickled; keys are the keys it has, and
\* the field of a key it does not have is empty.
SavedData(path) ==
    [keys |-> {"texts", "metadata", "embedding_dim"}
                \cup (IF faiss THEN {"index_path"} ELSE {"embeddings"}),
     texts |-> _texts, metadata |-> _metadata, embedding_dim |-> embedding_dim,
     index_path |-> IF faiss THEN IndexPath(path) ELSE "",
     embeddings |-> IF faiss THEN <<>> ELSE vectors]

\* save, lines 166-187: the files after the call.
DiskAfterSave(path) ==
    [f \in DOMAIN disk \cup {path} \cup (IF faiss THEN {IndexPath(path)} ELSE {}) |->
        IF f = path THEN SavedData(path)
        ELSE IF faiss /\ f = IndexPath(path) THEN vectors
        ELSE disk[f]]

\* The same with the default dimension instead of the pickled one.
LoadedDim_Default(data) == 384

\* load, line 200.
LoadedDim(data) == data.embedding_dim

\* load, lines 202-207: the rows the store holds after the call.
LoadedVectors(data) ==
    IF faiss /\ "index_path" \in data.keys
        THEN IF data.index_path \in DOMAIN disk THEN disk[data.index_path] ELSE vectors
    ELSE IF faiss THEN vectors
    ELSE IF "embeddings" \in data.keys THEN data.embeddings ELSE <<>>

\* save, lines 166-187.
Save(path) ==
    /\ store_op.name = "idle"
    /\ store_op' = [name |-> "save", path |-> path]
    /\ store_before' = <<vectors, _texts, _metadata>>
    /\ store_status' = "ok"
    /\ search_results' = <<>>
    /\ disk' = DiskAfterSave(path)
    /\ saved' = [f \in {path} |-> <<vectors, _texts, _metadata, embedding_dim>>]
    /\ UNCHANGED <<faiss, embedding_dim, vectors, _texts, _metadata>>
    /\ PersistOnly

\* load, lines 189-209; dim is the embedding_dim the call found.
Load(path) ==
    /\ store_op.name = "idle"
    /\ store_op' = [name |-> "load", path |-> path, dim |-> embedding_dim]
    /\ store_before' = <<vectors, _texts, _metadata>>
    /\ store_status' = "ok"
    /\ search_results' = <<>>
    /\ IF path \notin DOMAIN disk
          THEN UNCHANGED <<embedding_dim, vectors, _texts, _metadata>>
          ELSE /\ _texts' = disk[path].texts
               /\ _metadata' = disk[path].metadata
               /\ embedding_dim' = LoadedDim(disk[path])
               /\ vectors' = LoadedVectors(disk[path])
    /\ UNCHANGED <<faiss, disk, saved>>
    /\ PersistOnly

\* VectorStore(embedding_dim), lines 31-52: a fresh store takes the place of
\* the one at hand; the files stay.
NewVectorStore(dim) ==
    /\ store_op.name = "idle"
    /\ store_op' = [name |-> "new"]
    /\ store_before' = <<vectors, _texts, _metadata>>
    /\ store_status' = "ok"
    /\ search_results' = <<>>
    /\ embedding_dim' = dim
    /\ vectors' = <<>>
    /\ _texts' = <<>>
    /\ _metadata' = <<>>
    /\ UNCHANGED <<faiss, disk, saved>>
    /\ PersistOnly

\* The dimensions a store is constructed with: the model's and the default.
StoreDims == {Dim, 384}

\* The add calls of this part of the model: one or more of two entries.
PersistAddCalls ==
    {c \in AddCalls :
        \A i \in 1..Len(c.texts) :
            \/ c.texts[i] = "x" /\ c.embeddings[i] = <<1, 0>>
            \/ c.texts[i] = "y" /\ c.embeddings[i] = <<3, 4>>}

\* add on a store of the model's dimension.
PersistAdd ==
    /\ store_op.name = "idle"
    /\ embedding_dim = Dim
    /\ \E c \in PersistAddCalls : Add(c.texts, c.embeddings, c.metadata)

PersistNext ==
    \/ PersistAdd
    \/ Save(StorePath)
    \/ Load(StorePath)
    \/ \E d \in StoreDims : NewVectorStore(d)
    \/ Clear
    \/ StoreReturn

(***************************************************************************)
(* Claims about save and load.                                             *)
(***************************************************************************)
\* The last call was a load, made on a store without entries, of a path that
\* a save has written.
LoadedIntoFresh ==
    /\ store_op.name = "load"
    /\ store_before = <<<<>>, <<>>, <<>>>>
    /\ store_op.path \in DOMAIN saved

\* C19: a store loaded from a path into a store without entries has the rows,
\* texts, metadata and embedding_dim the saved store had at the save (so the
\* same size and the same search results); loaded from a save of a store
\* without entries, it is a store without entries.
C19_SaveLoadRoundTrip ==
    LoadedIntoFresh =>
        /\ <<vectors, _texts, _metadata, embedding_dim>> = saved[store_op.path]
        /\ saved[store_op.path][2] = <<>> =>
              (vectors = <<>> /\ _texts = <<>> /\ _metadata = <<>>)

\* C19's case: a fresh store of the default dimension has loaded a save of two
\* entries made by a store of another dimension.
C19_Witness ==
    /\ LoadedIntoFresh
    /\ store_op.dim = 384
    /\ Len(_texts) = 2
    /\ Len(vectors) = 2
    /\ embedding_dim = Dim
    /\ <<vectors, _texts, _metadata, embedding_dim>> = saved[store_op.path]

\* C20: every row the store holds after an add has norm 1 (the rows are kept
\* times Scale).
C20_UnitNorm ==
    store_op.name = "add" =>
        \A i \in 1..Len(vectors) : Dot(vectors[i], vectors[i]) = Scale * Scale

(***************************************************************************)
(*   RAGService  (rag_service.py)  and  process_files_background           *)
(*                                                                         *)
(* The service's store is the VectorStore above. The chunker and the       *)
(* embedder are taken by what they give back: a document's content yields  *)
(* a number of chunks, the embedder one row per text, and either of them,  *)
(* or the index, may raise instead.                                        *)
(***************************************************************************)
MaxRagStore == 4

RagNames == {"a.txt", "b.txt"}

\* Contents: the empty text, a text too short for a chunk (chunk_text gives no
\* chunk for a buffer under min_chunk_size) and a text of two chunks.
RagContents == {"", "tiny", "long"}
ChunkCount(content) == IF content \in {"long", "other"} THEN 2 ELSE 0

RagDocuments == [name : RagNames, content : RagContents]
DocLists == SeqsUpTo(RagDocuments, MaxDocs)

\* The component that raises during the call, if any.
RagFaults == {"none", "chunker", "embedder", "index"}

\* ChunkingService.chunk_documents, lines 166-184.
RECURSIVE chunk_documents(_)
chunk_documents(documents) ==
    IF documents = <<>> THEN <<>>
    ELSE LET doc == Head(documents)
         IN [i \in 1..ChunkCount(doc.content) |->
                [text |-> <<doc.content, i>>, source |-> doc.name, chunk_id |-> i - 1]]
            \o chunk_documents(Tail(documents))

\* embed_texts: the row of a text.
EmbedVector(text) ==
    IF text[1] = "other" THEN (IF text[2] = 1 THEN <<0, 1>> ELSE <<4, 3>>)
    ELSE (IF text[2] = 1 THEN <<1, 0>> ELSE <<3, 4>>)

\* index_uploaded_files, lines 118-122: the files with a content.
text_docs(uploaded_files) == SelectSeq(uploaded_files, LAMBDA f : f.content # "")

\* index_documents, lines 63-91: the call reaches the component that raises.
FaultFires(documents, fault) ==
    /\ documents # <<>>
    /\ \/ fault = "chunker"
       \/ fault \in {"embedder", "index"} /\ chunk_documents(documents) # <<>>

\* index_documents, lines 63-88: the call gets as far as embed_texts.
ReachesEmbedder(documents, fault) ==
    /\ documents # <<>>
    /\ fault # "chunker"
    /\ chunk_documents(documents) # <<>>

\* The same with the exception caught whatever the entry point.
Propagates_Never(entry) == FALSE

\* An exception of index_documents reaches the caller of the entry point:
\* index_documents and index_uploaded_files have no handler,
\* process_files_background (lines 171-175) catches it and returns 0.
Propagates(entry) == entry # "process_files_background"

\* The same counting a source once per call.
TrackSources_PerCall(sources, all_chunks) ==
    LET names == {all_chunks[i].source : i \in 1..Len(all_chunks)}
    IN [n \in DOMAIN sources \cup names |->
           (IF n \in DOMAIN sources THEN sources[n] ELSE 0)
           + (IF n \in names THEN 1 ELSE 0)]

\* index_documents, lines 94-97: one more per chunk for the chunk's source.
TrackSources(sources, all_chunks) ==
    LET names == {all_chunks[i].source : i \in 1..Len(all_chunks)}
    IN [n \in DOMAIN sources \cup names |->
           (IF n \in DOMAIN sources THEN sources[n] ELSE 0)
           + Cardinality({i \in 1..Len(all_chunks) : all_chunks[i].source = n})]

\* What a call that raised gives its caller.
Raised == [raised |-> TRUE]

\* The same leaving the map as it is.
SourcesAfterClear_Kept == indexed_sources

\* clear, line 207.
SourcesAfterClear == <<>>

RagInit ==
    /\ indexed_sources = <<>>
    /\ rag_op = [name |-> "idle"]
    /\ rag_before = <<>>
    /\ rag_status = "ok"
    /\ rag_result = 0
    /\ rag_embed_calls = <<>>
    /\ ever_indexed = FALSE

\* index_documents (lines 53-100) called on documents, from the entry point
\* entry, with the given component raising.
Ingest(entry, files, documents, fault) ==
    LET all_chunks == chunk_documents(documents)
        texts == [i \in 1..Len(all_chunks) |-> all_chunks[i].text]
        metadata == [i \in 1..Len(all_chunks) |->
                        [source |-> all_chunks[i].source,
                         chunk_id |-> all_chunks[i].chunk_id]]
        embeddings == [i \in 1..Len(texts) |-> EmbedVector(texts[i])]
    IN /\ rag_op.name = "idle"
       /\ fault = "index" => faiss
       /\ Len(_texts) + Len(all_chunks) <= MaxRagStore
       /\ rag_op' = [name |-> entry, files |-> files, fault |-> fault,
                     raised |-> FaultFires(documents, fault)]
       /\ rag_before' = <<vectors, _texts, _metadata, indexed_sources>>
       /\ rag_embed_calls' = IF ReachesEmbedder(documents, fault)
                                THEN <<[name |-> "embed_texts", texts |-> texts]>>
                                ELSE <<>>
       /\ ever_indexed' = (ever_indexed \/ (~FaultFires(documents, fault) /\ all_chunks # <<>>))
       /\ IF FaultFires(documents, fault)
             THEN /\ rag_status' = IF Propagates(entry) THEN "error" ELSE "ok"
                  /\ rag_result' = IF Propagates(entry) THEN Raised ELSE 0
                  /\ UNCHANGED <<vectors, _texts, _metadata, indexed_sources>>
             ELSE IF all_chunks = <<>>
             THEN /\ rag_status' = "ok"
                  /\ rag_result' = 0
                  /\ UNCHANGED <<vectors, _texts, _metadata, indexed_sources>>
             ELSE /\ rag_status' = "ok"
                  /\ rag_result' = Len(all_chunks)
                  /\ vectors' = vectors \o [i \in 1..Len(embeddings) |->
                                               NormalizeRow(embeddings[i])]
                  /\ _texts' = _texts \o texts
                  /\ _metadata' = _metadata \o MetadataAdded(texts, metadata)
                  /\ indexed_sources' = TrackSources(indexed_sources, all_chunks)
       /\ UNCHANGED <<faiss, embedding_dim, store_op, store_before, store_status,
                      search_results>>
       /\ RagOnly

\* RAGService.index_documents, lines 53-100.
IndexDocuments(documents, fault) ==
    Ingest("index_documents", documents, documents, fault)

\* RAGService.index_uploaded_files, lines 102-124.
IndexUploadedFiles(uploaded_files, fault) ==
    Ingest("index_uploaded_files", uploaded_files, text_docs(uploaded_files), fault)

\* process_files_background, lines 157-175.
ProcessFilesBackground(files, fault) ==
    Ingest("process_files_background", files, text_docs(files), fault)

\* RAGService.clear, lines 204-208, with VectorStore.clear, lines 154-164.
RagClear ==
    /\ rag_op.name = "idle"
    /\ rag_op' = [name |-> "clear"]
    /\ rag_before' = <<vectors, _texts, _metadata, indexed_sources>>
    /\ rag_status' = "ok"
    /\ rag_result' = 0
    /\ vectors' = <<>>
    /\ _texts' = <<>>
    /\ _metadata' = <<>>
    /\ indexed_sources' = SourcesAfterClear
    /\ rag_embed_calls' = <<>>
    /\ UNCHANGED ever_indexed
    /\ UNCHANGED <<faiss, embedding_dim, store_op, store_before, store_status,
                   search_results>>
    /\ RagOnly

\* The call has returned (or raised) and the caller has its outcome.
RagReturn ==
    /\ rag_op.name # "idle"
    /\ rag_op' = [name |-> "idle"]
    /\ rag_before' = <<>>
    /\ rag_status' = "ok"
    /\ rag_result' = 0
    /\ rag_embed_calls' = <<>>
    /\ UNCHANGED <<indexed_sources, ever_indexed, storeVars>>
    /\ RagOnly

\* The queries of the model and the rows the embedder gives for them.
RagQueries == {"q1", "q2"}
QueryVector(query) == IF query = "q1" THEN <<1, 0>> ELSE <<4, 3>>
RagTopKs == {1, 5}
RagMinScores == {0, 15}

\* RAGContext(chunks=[], context_text="", sources=[]), lines 144 and 153.
EmptyContext == [chunks |-> <<>>, context_text |-> <<>>, sources |-> {}]

\* VectorStore.search (lines 97-152) on the service's store: the result lists
\* it may return, one for each order argsort may give.
SearchOutcomes(query_embedding, top_k, min_score) ==
    IF Len(_texts) = 0 \/ Norm(query_embedding) = 0 THEN {<<>>}
    ELSE LET scores == Scores(NormalizeRow(query_embedding))
             kept(order) == Passing(IF faiss THEN FaissIndices(order, top_k)
                                             ELSE TopIndices(order, top_k),
                                    scores, min_score)
         IN {[i \in 1..Len(kept(order)) |-> MakeResult(kept(order)[i], scores[kept(order)[i]])] :
                order \in ArgSorts(scores)}

\* retrieve, lines 152-174: the context built from the results; context_text
\* is kept as the list of its parts (source, chunk number, score, text).
MakeContext(results) ==
    IF results = <<>> THEN EmptyContext
    ELSE [chunks |-> results,
          context_text |-> [i \in 1..Len(results) |->
                               <<results[i].metadata.source, results[i].metadata.chunk_id + 1,
                                 results[i].score, results[i].text>>],
          sources |-> {results[i].metadata.source : i \in 1..Len(results)}]

\* The same never taking the early return.
StoreIsEmpty_Never == FALSE

\* retrieve, line 143: self.store.size == 0.
StoreIsEmpty == Len(_texts) = 0

\* RAGService.retrieve, lines 126-174; fault "embedder": embed_text raises.
Retrieve(query, top_k, min_score, fault) ==
    /\ rag_op.name = "idle"
    /\ rag_op' = [name |-> "retrieve", query |-> query, fault |-> fault]
    /\ rag_before' = <<vectors, _texts, _metadata, indexed_sources>>
    /\ IF StoreIsEmpty
          THEN /\ rag_embed_calls' = <<>>
               /\ rag_status' = "ok"
               /\ rag_result' = EmptyContext
          ELSE /\ rag_embed_calls' = <<[name |-> "embed_text", texts |-> <<query>>]>>
               /\ IF fault = "embedder"
                     THEN /\ rag_status' = "error"
                          /\ rag_result' = Raised
                     ELSE /\ rag_status' = "ok"
                          /\ \E results \in SearchOutcomes(QueryVector(query), top_k, min_score) :
                                rag_result' = MakeContext(results)
    /\ UNCHANGED <<indexed_sources, ever_indexed, storeVars>>
    /\ RagOnly

RagNext ==
    \/ \E d \in DocLists, f \in RagFaults : IndexDocuments(d, f)
    \/ \E d \in DocLists, f \in RagFaults : IndexUploadedFiles(d, f)
    \/ \E d \in DocLists, f \in RagFaults : ProcessFilesBackground(d, f)
    \/ RagClear
    \/ \E q \in RagQueries, k \in RagTopKs, m \in RagMinScores, f \in {"none", "embedder"} :
          Retrieve(q, k, m, f)
    \/ RagReturn

(***************************************************************************)
(* Claims about RAGService and process_files_background.                   *)
(***************************************************************************)
RagState == <<vectors, _texts, _metadata, indexed_sources>>

RECURSIVE SumOver(_, _)
SumOver(f, S) ==
    IF S = {} THEN 0
    ELSE LET x == CHOOSE y \in S : TRUE IN f[x] + SumOver(f, S \ {x})

\* The sum of the chunk counts of an indexed_sources map.
TotalTracked(sources) == SumOver(sources, DOMAIN sources)

\* C11: when the embedder raises during index_documents the caller gets the
\* error, and the store's vectors, texts and metadata and the indexed_sources
\* map are what they were before the call.
C11_EmbedderFailureRollsBack ==
    (rag_op.name = "index_documents" /\ rag_op.fault = "embedder" /\ rag_op.raised) =>
        /\ rag_status = "error"
        /\ RagState = rag_before

\* C11's case: the embedder raised during an index_documents call made on a
\* service that already holds entries.
C11_Witness ==
    /\ rag_op.name = "index_documents"
    /\ rag_op.fault = "embedder"
    /\ rag_op.raised
    /\ rag_status = "error"
    /\ Len(_texts) > 0
    /\ DOMAIN indexed_sources # {}

\* C12: an ingestion during which the chunker, the embedder or the index
\* raised ends with an error for its caller, never with a returned count (so
\* never with the 0 of an ingestion of no chunks), whichever the entry point.
C12_FailureSurfaces ==
    (rag_op.name \in {"index_documents", "index_uploaded_files",
                      "process_files_background"} /\ rag_op.raised) =>
        rag_status = "error"

\* C17: the chunk counts of indexed_sources add up to the size of the store,
\* and an index_documents call that returns gives the number of entries it
\* added to the store and to the map.
C17_SourcesMatchStore ==
    /\ TotalTracked(indexed_sources) = Len(_texts)
    /\ Len(vectors) = Len(_texts)
    /\ Len(_metadata) = Len(_texts)
    /\ (rag_op.name = "index_documents" /\ rag_status = "ok") =>
          /\ rag_result = Len(_texts) - Len(rag_before[2])
          /\ rag_result = TotalTracked(indexed_sources) - TotalTracked(rag_before[4])

\* C17's case: an index_documents call added chunks of two sources to a
\* service that already held entries.
C17_Witness ==
    /\ rag_op.name = "index_documents"
    /\ rag_status = "ok"
    /\ rag_result > 0
    /\ Len(rag_before[2]) > 0
    /\ Cardinality(DOMAIN indexed_sources) = 2
    /\ TotalTracked(indexed_sources) = Len(_texts)

\* C18: when clear has returned the store holds nothing and indexed_sources
\* is empty, whatever was ingested before.
C18_ClearResetsBoth ==
    rag_op.name = "clear" =>
        /\ Len(_texts) = 0
        /\ Len(vectors) = 0
        /\ Len(_metadata) = 0
        /\ DOMAIN indexed_sources = {}

\* C18's case: clear was called on a service holding entries of a source.
C18_Witness ==
    /\ rag_op.name = "clear"
    /\ Len(rag_before[2]) > 0
    /\ DOMAIN rag_before[4] # {}
    /\ Len(_texts) = 0
    /\ DOMAIN indexed_sources = {}

(***************************************************************************)
(*                retry_with_backoff  (utils/retry.py)                     *)
(*                                                                         *)
(* The decorated function is taken by what a call of it does: it returns a *)
(* value or raises an exception. The value a call returns is the number of *)
(* that call, so that the results of different attempts differ. on_retry   *)
(* and time.sleep return normally. Delays are in seconds before the jitter *)
(* and the jitter is kept as a percentage.                                 *)
(***************************************************************************)
MaxRetries == 2

\* The classes of the exceptions func raises, with the classes each is an
\* instance of (Python's built-in hierarchy).
RetryExceptions == {"ConnectionError", "OSError", "ValueError"}
Ancestors(e) ==
    IF e = "ConnectionError" THEN {"ConnectionError", "OSError", "Exception"}
    ELSE IF e = "OSError" THEN {"OSError", "Exception"}
    ELSE {"ValueError", "Exception"}

\* The same retrying on every exception.
IsRetryable_All(e, retryable_exceptions) == TRUE

\* "except retryable_exceptions as e", line 54: e is an instance of one of them.
IsRetryable(e, retryable_exceptions) == Ancestors(e) \cap retryable_exceptions # {}

\* The same never giving up.
Exhausted_Never(a, max_retries) == FALSE

\* "if attempt == max_retries", line 57.
Exhausted(a, max_retries) == a = max_retries

RECURSIVE Pow(_, _)
Pow(b, n) == IF n = 0 THEN 1 ELSE b * Pow(b, n - 1)

Min(a, b) == IF a <= b THEN a ELSE b

\* The delay of line 66.
Delay(cfg, a) == Min(cfg.base_delay * Pow(cfg.exponential_base, a), cfg.max_delay)

\* The factor of line 70, in percent: 0.75 + random.random() * 0.5.
JitterPercents(cfg) == IF cfg.jitter THEN {75, 124} ELSE {100}

CallEvent(n, result, exc, value) ==
    [ev |-> "call", n |-> n, result |-> result, exc |-> exc, value |-> value]
SleepEvent(delay, percent) == [ev |-> "sleep", delay |-> delay, percent |-> percent]

\* The same numbering the retries from 1.
OnRetryEvents_FromOne(cfg, e, a) ==
    IF cfg.on_retry THEN <<[ev |-> "on_retry", exc |-> e, attempt |-> a + 1]>> ELSE <<>>

\* Lines 77-78: on_retry(e, attempt), when the decorator was given one.
OnRetryEvents(cfg, e, a) ==
    IF cfg.on_retry THEN <<[ev |-> "on_retry", exc |-> e, attempt |-> a]>> ELSE <<>>

\* The same going round the loop again.
AfterSuccess_Again == "try"

\* "return func(*args, **kwargs)", line 53: the wrapper is left.
AfterSuccess == "done"

NoOutcome == [kind |-> "none", exc |-> "", cause |-> "", value |-> 0]
ReturnedValue(v) == [kind |-> "return", exc |-> "", cause |-> "", value |-> v]
RaisedException(e, cause) == [kind |-> "raise", exc |-> e, cause |-> cause, value |-> 0]

\* The arguments of the decorator, lines 20-28; the delays are the defaults
\* and a max_delay the second retry already reaches.
RetryConfigs ==
    [max_retries : 0..MaxRetries,
     base_delay : {1},
     max_delay : {2, 30},
     exponential_base : {2},
     jitter : BOOLEAN,
     retryable_exceptions : {{"Exception"}, {"ConnectionError"},
                             {"ConnectionError", "TimeoutError", "OSError"}},
     on_retry : BOOLEAN]

CallsMade == Len(SelectSeq(retry_log, LAMBDA x : x.ev = "call"))

RetryInit ==
    /\ retry_cfg \in RetryConfigs
    /\ retry_pc = "idle"
    /\ attempt = 0
    /\ last_exception = ""
    /\ retry_log = <<>>
    /\ retry_outcome = NoOutcome

\* The wrapper is called, lines 48-51.
WrapperCall ==
    /\ retry_pc = "idle"
    /\ retry_pc' = "try"
    /\ attempt' = 0
    /\ last_exception' = ""
    /\ retry_log' = <<>>
    /\ retry_outcome' = NoOutcome
    /\ UNCHANGED retry_cfg
    /\ RetryOnly

\* func returns, lines 52-53.
FuncReturns ==
    /\ retry_pc = "try"
    /\ LET n == CallsMade + 1
       IN /\ retry_log' = Append(retry_log, CallEvent(n, "return", "", n))
          /\ retry_pc' = AfterSuccess
          /\ retry_outcome' = IF AfterSuccess = "done" THEN ReturnedValue(n) ELSE retry_outcome
    /\ UNCHANGED <<retry_cfg, attempt, last_exception>>
    /\ RetryOnly

\* func raises e, lines 52-82: the exception is not caught, or it exhausts
\* the retries, or on_retry and the sleep follow and the loop goes on.
FuncRaises(e, percent) ==
    /\ retry_pc = "try"
    /\ LET n == CallsMade + 1
           called == Append(retry_log, CallEvent(n, "raise", e, 0))
       IN IF ~IsRetryable(e, retry_cfg.retryable_exceptions)
             THEN /\ percent = 100
                  /\ retry_log' = called
                  /\ retry_outcome' = RaisedException(e, "")
                  /\ retry_pc' = "done"
                  /\ UNCHANGED <<attempt, last_exception>>
          ELSE IF Exhausted(attempt, retry_cfg.max_retries)
             THEN /\ percent = 100
                  /\ retry_log' = called
                  /\ last_exception' = e
                  /\ retry_outcome' = RaisedException("RetryExhausted", e)
                  /\ retry_pc' = "done"
                  /\ UNCHANGED attempt
          ELSE /\ percent \in JitterPercents(retry_cfg)
               /\ retry_log' = called \o OnRetryEvents(retry_cfg, e, attempt)
                                  \o <<SleepEvent(Delay(retry_cfg, attempt), percent)>>
               /\ last_exception' = e
               /\ IF attempt + 1 <= retry_cfg.max_retries
                     THEN /\ attempt' = attempt + 1
                          /\ UNCHANGED <<retry_pc, retry_outcome>>
                     ELSE /\ retry_outcome' = RaisedException(e, "")
                          /\ retry_pc' = "done"
                          /\ UNCHANGED attempt
    /\ UNCHANGED retry_cfg
    /\ RetryOnly

\* The caller has the wrapper's outcome; the wrapper can be called again.
WrapperReturn ==
    /\ retry_pc = "done"
    /\ retry_pc' = "idle"
    /\ attempt' = 0
    /\ last_exception' = ""
    /\ retry_log' = <<>>
    /\ retry_outcome' = NoOutcome
    /\ UNCHANGED retry_cfg
    /\ RetryOnly

RetryNext ==
    \/ WrapperCall
    \/ FuncReturns
    \/ \E e \in RetryExceptions, percent \in {75, 100, 124} : FuncRaises(e, percent)
    \/ WrapperReturn

(***************************************************************************)
(*            BackgroundTaskService  (background_service.py)               *)
(*                                                                         *)
(* Every worker thread and every caller is a process; a step is one        *)
(* operation on the shared dict or queue. A task's function is taken by    *)
(* how its call ends. task_ids are distinct: an id is submitted once.      *)
(***************************************************************************)
MaxTasks == 2
max_workers == 2

TaskIds == 1..MaxTasks
Workers == 1..max_workers

\* The sentinel stop() puts on the queue, line 69.
StopItem == 0

NoTask == [status |-> "none", result |-> "", error |-> ""]

\* The same leaving the item on the queue.
QueueAfterGet_Keep(q) == q

\* queue.Queue.get, line 75: the oldest item is taken off the queue.
QueueAfterGet(q) == Tail(q)

\* clear_completed, lines 147-150: the entries the comprehension keeps.
KeptTasks(tasks) ==
    {k \in tasks : task_objects[k].status \notin {"completed", "failed"}}

SetStatus(id, status) ==
    /\ task_objects' = [task_objects EXCEPT ![id].status = status]
    /\ status_log' = [status_log EXCEPT ![id] = Append(@, status)]

\* __init__, lines 45-50.
TaskInit ==
    /\ _running = FALSE
    /\ _workers = {}
    /\ _tasks = {}
    /\ _task_queue = <<>>
    /\ task_objects = [id \in TaskIds |-> NoTask]
    /\ worker_pc = [w \in Workers |-> "unborn"]
    /\ worker_item = [w \in Workers |-> StopItem]
    /\ clear_pc = "idle"
    /\ clear_kept = {}
    /\ executed = [id \in TaskIds |-> <<>>]
    /\ status_log = [id \in TaskIds |-> <<>>]

\* start, lines 52-63; the service is started once.
Start ==
    /\ ~_running
    /\ _workers = {}
    /\ _running' = TRUE
    /\ _workers' = Workers
    /\ worker_pc' = [w \in Workers |-> "loop"]
    /\ UNCHANGED <<_tasks, _task_queue, task_objects, worker_item, clear_pc,
                   clear_kept, executed, status_log>>
    /\ TaskOnly

\* stop, lines 65-69, called on a running service.
Stop ==
    /\ _running
    /\ _running' = FALSE
    /\ _task_queue' = _task_queue \o [i \in 1..Cardinality(_workers) |-> StopItem]
    /\ UNCHANGED <<_workers, _tasks, task_objects, worker_pc, worker_item, clear_pc,
                   clear_kept, executed, status_log>>
    /\ TaskOnly

\* submit, lines 111-130, with a task_id not used before.
Submit(id) ==
    /\ task_objects[id] = NoTask
    /\ \A k \in TaskIds : k < id => task_objects[k] # NoTask
    /\ task_objects' = [task_objects EXCEPT ![id] =
                            [status |-> "pending", result |-> "", error |-> ""]]
    /\ status_log' = [status_log EXCEPT ![id] = <<"pending">>]
    /\ _tasks' = _tasks \cup {id}
    /\ _task_queue' = Append(_task_queue, id)
    /\ UNCHANGED <<_running, _workers, worker_pc, worker_item, clear_pc, clear_kept,
                   executed>>
    /\ TaskOnly

\* clear_completed, lines 147-150: the comprehension is evaluated.
ClearCompletedBuild ==
    /\ clear_pc = "idle"
    /\ clear_kept' = KeptTasks(_tasks)
    /\ clear_pc' = "assign"
    /\ UNCHANGED <<_running, _workers, _tasks, _task_queue, task_objects, worker_pc,
                   worker_item, executed, status_log>>
    /\ TaskOnly

\* clear_completed, line 147: the new dict is assigned to self._tasks.
ClearCompletedAssign ==
    /\ clear_pc = "assign"
    /\ _tasks' = clear_kept
    /\ clear_kept' = {}
    /\ clear_pc' = "idle"
    /\ UNCHANGED <<_running, _workers, _task_queue, task_objects, worker_pc,
                   worker_item, executed, status_log>>
    /\ TaskOnly

\* _worker_loop, line 73: the test of the while loop.
WorkerTest(w) ==
    /\ worker_pc[w] = "loop"
    /\ worker_pc' = [worker_pc EXCEPT ![w] = IF _running THEN "get" ELSE "exited"]
    /\ UNCHANGED <<_running, _workers, _tasks, _task_queue, task_objects, worker_item,
                   clear_pc, clear_kept, executed, status_log>>
    /\ TaskOnly

\* _worker_loop, lines 75-79: get returns an item.
WorkerGet(w) ==
    /\ worker_pc[w] = "get"
    /\ _task_queue # <<>>
    /\ _task_queue' = QueueAfterGet(_task_queue)
    /\ worker_item' = [worker_item EXCEPT ![w] = Head(_task_queue)]
    /\ worker_pc' = [worker_pc EXCEPT ![w] =
                        IF Head(_task_queue) = StopItem THEN "exited" ELSE "execute"]
    /\ UNCHANGED <<_running, _workers, _tasks, task_objects, clear_pc, clear_kept,
                   executed, status_log>>
    /\ TaskOnly

\* _worker_loop, lines 75 and 82-83: get times out on an empty queue.
WorkerTimeout(w) ==
    /\ worker_pc[w] = "get"
    /\ _task_queue = <<>>
    /\ worker_pc' = [worker_pc EXCEPT ![w] = "loop"]
    /\ UNCHANGED <<_running, _workers, _tasks, _task_queue, task_objects, worker_item,
                   clear_pc, clear_kept, executed, status_log>>
    /\ TaskOnly

\* _execute_task, lines 89-94: the task is looked up and marked running.
ExecuteStart(w) ==
    /\ worker_pc[w] = "execute"
    /\ IF worker_item[w] \in _tasks
          THEN /\ SetStatus(worker_item[w], "running")
               /\ worker_pc' = [worker_pc EXCEPT ![w] = "call"]
               /\ UNCHANGED worker_item
          ELSE /\ worker_pc' = [worker_pc EXCEPT ![w] = "loop"]
               /\ worker_item' = [worker_item EXCEPT ![w] = StopItem]
               /\ UNCHANGED <<task_objects, status_log>>
    /\ UNCHANGED <<_running, _workers, _tasks, _task_queue, clear_pc, clear_kept,
                   executed>>
    /\ TaskOnly

\* _execute_task, lines 96-109: func is called and returns, raises an
\* Exception, or raises something that is not an Exception (the handlers of
\* lines 103 and 84 do not catch it and the thread ends).
ExecuteCall(w, ending) ==
    /\ worker_pc[w] = "call"
    /\ executed' = [executed EXCEPT ![worker_item[w]] = Append(@, w)]
    /\ IF ending = "returns"
          THEN /\ task_objects' = [task_objects EXCEPT
                                      ![worker_item[w]].result = "result",
                                      ![worker_item[w]].status = "completed"]
               /\ status_log' = [status_log EXCEPT ![worker_item[w]] = Append(@, "completed")]
          ELSE IF ending = "raises"
          THEN /\ task_objects' = [task_objects EXCEPT
                                      ![worker_item[w]].error = "error",
                                      ![worker_item[w]].status = "failed"]
               /\ status_log' = [status_log EXCEPT ![worker_item[w]] = Append(@, "failed")]
          ELSE UNCHANGED <<task_objects, status_log>>
    /\ worker_pc' = [worker_pc EXCEPT ![w] =
                        IF ending = "exits" THEN "exited" ELSE "loop"]
    /\ worker_item' = [worker_item EXCEPT ![w] = StopItem]
    /\ UNCHANGED <<_running, _workers, _tasks, _task_queue, clear_pc, clear_kept>>
    /\ TaskOnly

TaskNext ==
    \/ Start
    \/ Stop
    \/ \E id \in TaskIds : Submit(id)
    \/ ClearCompletedBuild
    \/ ClearCompletedAssign
    \/ \E w \in Workers : WorkerTest(w)
    \/ \E w \in Workers : WorkerGet(w)
    \/ \E w \in Workers : WorkerTimeout(w)
    \/ \E w \in Workers : ExecuteStart(w)
    \/ \E w \in Workers, ending \in {"returns", "raises", "exits"} : ExecuteCall(w, ending)

(***************************************************************************)
(* Claims about BackgroundTaskService.                                     *)
(***************************************************************************)
IsPrefix(s, t) == Len(s) <= Len(t) /\ SubSeq(t, 1, Len(s)) = s

\* C30: the function of a task is called at most once, so by one worker, and
\* the values the task's status takes are pending, running and then completed
\* or failed, in that order: a status once completed or failed is the last.
C30_TaskRunsOnce ==
    \A id \in TaskIds :
        /\ Len(executed[id]) <= 1
        /\ \/ IsPrefix(status_log[id], <<"pending", "running", "completed">>)
           \/ IsPrefix(status_log[id], <<"pending", "running", "failed">>)
        /\ status_log[id] # <<>> =>
              task_objects[id].status = status_log[id][Len(status_log[id])]

\* C30's case: two tasks were run by two different workers, one completed and
\* one failed, and clear_completed has removed them from the dict since.
C30_Witness ==
    /\ Len(executed[1]) = 1
    /\ Len(executed[2]) = 1
    /\ executed[1] # executed[2]
    /\ {task_objects[1].status, task_objects[2].status} = {"completed", "failed"}
    /\ _tasks = {}
    /\ ~_running

\* C23: retrieve on a store of size 0 returns the empty context and makes no
\* call to the embedder, whatever was ingested and cleared before.
C23_EmptyIndexShortCircuit ==
    (rag_op.name = "retrieve" /\ Len(_texts) = 0) =>
        /\ rag_status = "ok"
        /\ rag_result = EmptyContext
        /\ rag_embed_calls = <<>>

\* C23's case: retrieve was called on a store emptied by clear after an
\* ingestion, with an embedder that would have raised had it been called.
C23_Witness ==
    /\ rag_op.name = "retrieve"
    /\ rag_op.fault = "embedder"
    /\ ever_indexed
    /\ Len(_texts) = 0
    /\ rag_result = EmptyContext
    /\ rag_embed_calls = <<>>

(***************************************************************************)
(*   RAGService.index_documents called by two background workers at once   *)
(*                                                                         *)
(* Each thread runs index_documents (through process_files_background) on  *)
(* one document. Chunking and embedding are local to the thread; a step is *)
(* one operation on the shared lists of the store or on the shared         *)
(* _indexed_sources dict. No lock is taken anywhere in these functions.    *)
(***************************************************************************)
ConcContents == {"long", "other"}
ConcDocuments == [name : RagNames, content : ConcContents]

\* dict[k] = v
SetSource(sources, k, v) ==
    [n \in DOMAIN sources \cup {k} |-> IF n = k THEN v ELSE sources[n]]

ChunkAt(t) == idx_chunks[t][idx_pos[t]]

ConcInit ==
    /\ idx_pc = [t \in Workers |-> "idle"]
    /\ idx_chunks = [t \in Workers |-> <<>>]
    /\ idx_pos = [t \in Workers |-> 0]
    /\ idx_read = [t \in Workers |-> 0]

\* index_documents, lines 63-88: the chunks and their embeddings are made.
ConcIndexStart(t, doc) ==
    /\ idx_pc[t] = "idle"
    /\ idx_chunks' = [idx_chunks EXCEPT ![t] = chunk_documents(<<doc>>)]
    /\ idx_pc' = [idx_pc EXCEPT ![t] = "add_rows"]
    /\ UNCHANGED <<idx_pos, idx_read, vectors, _texts, _metadata, indexed_sources>>
    /\ ConcOnly

\* add, lines 82-86: the rows are appended to the index or the list.
ConcAddRows(t) ==
    /\ idx_pc[t] = "add_rows"
    /\ vectors' = vectors \o [i \in 1..Len(idx_chunks[t]) |->
                                 NormalizeRow(EmbedVector(idx_chunks[t][i].text))]
    /\ idx_pc' = [idx_pc EXCEPT ![t] = "add_texts"]
    /\ UNCHANGED <<idx_chunks, idx_pos, idx_read, _texts, _metadata, indexed_sources>>
    /\ ConcOnly

\* add, line 88.
ConcAddTexts(t) ==
    /\ idx_pc[t] = "add_texts"
    /\ _texts' = _texts \o [i \in 1..Len(idx_chunks[t]) |-> idx_chunks[t][i].text]
    /\ idx_pc' = [idx_pc EXCEPT ![t] = "add_metadata"]
    /\ UNCHANGED <<idx_chunks, idx_pos, idx_read, vectors, _metadata, indexed_sources>>
    /\ ConcOnly

\* add, lines 90-91.
ConcAddMetadata(t) ==
    /\ idx_pc[t] = "add_metadata"
    /\ _metadata' = _metadata \o [i \in 1..Len(idx_chunks[t]) |->
                                     [source |-> idx_chunks[t][i].source,
                                      chunk_id |-> idx_chunks[t][i].chunk_id]]
    /\ idx_pc' = [idx_pc EXCEPT ![t] = "track"]
    /\ idx_pos' = [idx_pos EXCEPT ![t] = 1]
    /\ UNCHANGED <<idx_chunks, idx_read, vectors, _texts, indexed_sources>>
    /\ ConcOnly

\* index_documents, line 95: "if chunk.source not in self._indexed_sources".
ConcTrackTest(t) ==
    /\ idx_pc[t] = "track"
    /\ idx_pc' = [idx_pc EXCEPT ![t] =
                     IF ChunkAt(t).source \in DOMAIN indexed_sources
                        THEN "track_read" ELSE "track_zero"]
    /\ UNCHANGED <<idx_chunks, idx_pos, idx_read, vectors, _texts, _metadata,
                   indexed_sources>>
    /\ ConcOnly

\* index_documents, line 96.
ConcTrackZero(t) ==
    /\ idx_pc[t] = "track_zero"
    /\ indexed_sources' = SetSource(indexed_sources, ChunkAt(t).source, 0)
    /\ idx_pc' = [idx_pc EXCEPT ![t] = "track_read"]
    /\ UNCHANGED <<idx_chunks, idx_pos, idx_read, vectors, _texts, _metadata>>
    /\ ConcOnly

\* index_documents, line 97: the count is read.
ConcTrackRead(t) ==
    /\ idx_pc[t] = "track_read"
    /\ idx_read' = [idx_read EXCEPT ![t] = indexed_sources[ChunkAt(t).source]]
    /\ idx_pc' = [idx_pc EXCEPT ![t] = "track_write"]
    /\ UNCHANGED <<idx_chunks, idx_pos, vectors, _texts, _metadata, indexed_sources>>
    /\ ConcOnly

\* index_documents, line 97: the count plus one is written; lines 94, 100.
ConcTrackWrite(t) ==
    /\ idx_pc[t] = "track_write"
    /\ indexed_sources' = SetSource(indexed_sources, ChunkAt(t).source, idx_read[t] + 1)
    /\ idx_pos' = [idx_pos EXCEPT ![t] = @ + 1]
    /\ idx_pc' = [idx_pc EXCEPT ![t] =
                     IF idx_pos[t] + 1 > Len(idx_chunks[t]) THEN "done" ELSE "track"]
    /\ UNCHANGED <<idx_chunks, idx_read, vectors, _texts, _metadata>>
    /\ ConcOnly

ConcNext ==
    \/ \E t \in Workers, doc \in ConcDocuments : ConcIndexStart(t, doc)
    \/ \E t \in Workers : ConcAddRows(t)
    \/ \E t \in Workers : ConcAddTexts(t)
    \/ \E t \in Workers : ConcAddMetadata(t)
    \/ \E t \in Workers : ConcTrackTest(t)
    \/ \E t \in Workers : ConcTrackZero(t)
    \/ \E t \in Workers : ConcTrackRead(t)
    \/ \E t \in Workers : ConcTrackWrite(t)

(***************************************************************************)
(* Claims about concurrent ingestion.                                      *)
(***************************************************************************)
Quiescent == \A t \in Workers : idx_pc[t] \in {"idle", "done"}

\* C28: once the concurrent index_documents calls have returned, the i-th
\* text, the i-th row and the i-th metadata entry of the store come from one
\* chunk, the store holds as many entries as chunks were added, and the
\* counts of indexed_sources add up to the size of the store.
C28_ConcurrentIngestAligned ==
    Quiescent =>
        /\ Len(vectors) = Len(_texts)
        /\ Len(_metadata) = Len(_texts)
        /\ Len(_texts) = SumSeq([t \in Workers |-> Len(idx_chunks[t])])
        /\ \A i \in 1..Len(_texts) :
              \E t \in Workers : \E c \in 1..Len(idx_chunks[t]) :
                  /\ _texts[i] = idx_chunks[t][c].text
                  /\ vectors[i] = NormalizeRow(EmbedVector(idx_chunks[t][c].text))
                  /\ _metadata[i].source = idx_chunks[t][c].source
                  /\ _metadata[i].chunk_id = idx_chunks[t][c].chunk_id
        /\ TotalTracked(indexed_sources) = Len(_texts)

(***************************************************************************)
(* Claims about retry_with_backoff.                                        *)
(***************************************************************************)
CallPositions == {i \in 1..Len(retry_log) : retry_log[i].ev = "call"}
OnRetryPositions == {i \in 1..Len(retry_log) : retry_log[i].ev = "on_retry"}

\* The exception class is one the decorator was told to retry on.
Caught(e) == Ancestors(e) \cap retry_cfg.retryable_exceptions # {}

EveryCallRaisedRetryable ==
    \A i \in CallPositions : retry_log[i].result = "raise" /\ Caught(retry_log[i].exc)

\* C24: func is never invoked more than max_retries + 1 times by one call of
\* the wrapper, and when every invocation raised a retryable exception the
\* finished call has invoked it exactly max_retries + 1 times and has raised
\* RetryExhausted.
C24_ExhaustsAfterMaxRetries ==
    /\ CallsMade <= retry_cfg.max_retries + 1
    /\ (retry_pc = "done" /\ EveryCallRaisedRetryable) =>
          /\ CallsMade = retry_cfg.max_retries + 1
          /\ retry_outcome.kind = "raise"
          /\ retry_outcome.exc = "RetryExhausted"

\* C24's case: max_retries = 2, three invocations that all raised a retryable
\* exception, and RetryExhausted raised from the last one.
C24_Witness ==
    /\ retry_pc = "done"
    /\ retry_cfg.max_retries = 2
    /\ EveryCallRaisedRetryable
    /\ CallsMade = 3
    /\ retry_outcome = RaisedException("RetryExhausted", last_exception)

\* C25: an invocation of func that returns is the last thing the wrapper
\* does: the wrapper has ended, returning that invocation's result, and func
\* has been invoked as many times as that invocation's number.
C25_ReturnsFirstSuccess ==
    \A i \in CallPositions :
        retry_log[i].result = "return" =>
            /\ i = Len(retry_log)
            /\ retry_pc = "done"
            /\ retry_outcome = ReturnedValue(retry_log[i].value)
            /\ retry_log[i].value = retry_log[i].n
            /\ CallsMade = retry_log[i].n

\* C25's case: the third invocation is the first that returns, after two
\* retryable failures.
C25_Witness ==
    /\ retry_pc = "done"
    /\ retry_outcome = ReturnedValue(3)
    /\ CallsMade = 3
    /\ \A i \in CallPositions : retry_log[i].n < 3 => Caught(retry_log[i].exc)

\* C26: an invocation of func that raises an exception outside
\* retryable_exceptions is the last thing the wrapper does (no on_retry, no
\* sleep, no further invocation): the wrapper has ended, raising that same
\* exception.
C26_NonRetryablePropagates ==
    \A i \in CallPositions :
        (retry_log[i].result = "raise" /\ ~Caught(retry_log[i].exc)) =>
            /\ i = Len(retry_log)
            /\ retry_pc = "done"
            /\ retry_outcome = RaisedException(retry_log[i].exc, "")

\* C26's case: with on_retry given and only ConnectionError retryable, a
\* ValueError raised by the second invocation reached the caller.
C26_Witness ==
    /\ retry_pc = "done"
    /\ retry_cfg.on_retry
    /\ retry_cfg.retryable_exceptions = {"ConnectionError"}
    /\ CallsMade = 2
    /\ retry_outcome = RaisedException("ValueError", "")

\* C27: every on_retry call directly follows a failed invocation that is not
\* the final attempt, with that invocation's exception and its index counted
\* from 0, which is also the number of on_retry calls made before it; when
\* on_retry is given, every such failed invocation is directly followed by
\* its on_retry call; and the next invocation of func comes after it.
C27_OnRetryPerRetry ==
    /\ \A i \in OnRetryPositions :
          /\ i > 1
          /\ retry_log[i - 1].ev = "call"
          /\ retry_log[i - 1].result = "raise"
          /\ retry_log[i - 1].exc = retry_log[i].exc
          /\ retry_log[i].attempt = retry_log[i - 1].n - 1
          /\ retry_log[i].attempt < retry_cfg.max_retries
          /\ retry_log[i].attempt = Cardinality({k \in OnRetryPositions : k < i})
          /\ retry_pc = "done" =>
                \E k \in CallPositions : k > i /\ retry_log[k].n = retry_log[i].attempt + 2
    /\ retry_cfg.on_retry =>
          \A i \in CallPositions :
              (/\ retry_log[i].result = "raise"
               /\ Caught(retry_log[i].exc)
               /\ retry_log[i].n <= retry_cfg.max_retries) =>
                   /\ i < Len(retry_log)
                   /\ retry_log[i + 1].ev = "on_retry"

\* C27's case: two retries, each with its on_retry call, then the attempt
\* that exhausts the retries, without one.
C27_Witness ==
    /\ retry_pc = "done"
    /\ retry_cfg.on_retry
    /\ retry_cfg.max_retries = 2
    /\ Cardinality(OnRetryPositions) = 2
    /\ retry_outcome.exc = "RetryExhausted"
    /\ retry_log[Len(retry_log)].ev = "call"

(***************************************************************************)
(* The specifications: one per component, the others at rest.              *)
(***************************************************************************)
StreamIdle ==
    /\ providers = {}
    /\ available = {}
    /\ current_provider = "none"
    /\ enable_fallback = TRUE
    /\ pc = "idle"
    /\ provider = "none"
    /\ messages = <<>>
    /\ error_type = "none"
    /\ fallbacks = <<>>
    /\ started = <<>>
    /\ out = <<>>
    /\ completed = "none"

EmbedIdle ==
    /\ use_cache = TRUE
    /\ cache = <<>>
    /\ disk_cache = <<>>
    /\ embed_input = <<>>
    /\ embed_output = <<>>
    /\ encode_log = <<>>
    /\ embed_op = "none"
    /\ embed_prev = NoCall

ChunkIdle ==
    /\ target_chunk_size = 500
    /\ min_chunk_size = 100
    /\ max_chunk_size = 800
    /\ overlap_tokens = 50
    /\ chunk_pc = "idle"
    /\ paragraphs = <<>>
    /\ para_idx = 1
    /\ current_chunk_text = EmptyText
    /\ current_chunk_start = 0
    /\ chunk_id = 0
    /\ char_position = 0
    /\ chunks = <<>>

StoreIdle ==
    /\ faiss = FALSE
    /\ embedding_dim = 384
    /\ vectors = <<>>
    /\ _texts = <<>>
    /\ _metadata = <<>>
    /\ store_op = [name |-> "idle"]
    /\ store_before = <<>>
    /\ store_status = "ok"
    /\ search_results = <<>>

PersistIdle ==
    /\ disk = <<>>
    /\ saved = <<>>

TrimIdle ==
    /\ trim_pc = "returned"
    /\ trim_messages = <<>>
    /\ trim_budget = MAX_TOKEN_BUDGET
    /\ trim_result = <<>>

RagIdle ==
    /\ indexed_sources = <<>>
    /\ rag_op = [name |-> "idle"]
    /\ rag_before = <<>>
    /\ rag_status = "ok"
    /\ rag_result = 0
    /\ rag_embed_calls = <<>>
    /\ ever_indexed = FALSE

RetryIdle ==
    /\ retry_cfg = [max_retries |-> 3, base_delay |-> 1, max_delay |-> 30,
                    exponential_base |-> 2, jitter |-> TRUE,
                    retryable_exceptions |-> {"Exception"}, on_retry |-> FALSE]
    /\ retry_pc = "idle"
    /\ attempt = 0
    /\ last_exception = ""
    /\ retry_log = <<>>
    /\ retry_outcome = NoOutcome

TaskIdle ==
    /\ _running = FALSE
    /\ _workers = {}
    /\ _tasks = {}
    /\ _task_queue = <<>>
    /\ task_objects = <<>>
    /\ worker_pc = <<>>
    /\ worker_item = <<>>
    /\ clear_pc = "idle"
    /\ clear_kept = {}
    /\ executed = <<>>
    /\ status_log = <<>>

ConcIdle ==
    /\ idx_pc = <<>>
    /\ idx_chunks = <<>>
    /\ idx_pos = <<>>
    /\ idx_read = <<>>

ExtraIdle == RetryIdle /\ TaskIdle /\ ConcIdle

OthersIdle == PersistIdle /\ TrimIdle /\ RagIdle /\ ExtraIdle

InitStream == StreamInit /\ EmbedIdle /\ ChunkIdle /\ StoreIdle /\ OthersIdle
SpecStream == InitStream /\ [][StreamNext]_vars

InitEmbed == StreamIdle /\ EmbedInit /\ ChunkIdle /\ StoreIdle /\ OthersIdle
SpecEmbed == InitEmbed /\ [][EmbedNext]_vars

InitChunk == StreamIdle /\ EmbedIdle /\ ChunkInit /\ StoreIdle /\ OthersIdle
SpecChunk == InitChunk /\ [][ChunkNext]_vars

InitChunkAny == StreamIdle /\ EmbedIdle /\ ChunkInitAny /\ StoreIdle /\ OthersIdle
SpecChunkAny == InitChunkAny /\ [][ChunkNext]_vars

InitStore == StreamIdle /\ EmbedIdle /\ ChunkIdle /\ StoreInit /\ OthersIdle
SpecStore == InitStore /\ [][StoreNext]_vars
SpecStoreAdd == InitStore /\ [][StoreAddNext]_vars

InitTrim ==
    /\ StreamIdle /\ EmbedIdle /\ ChunkIdle /\ StoreIdle /\ PersistIdle /\ TrimInit /\ RagIdle
    /\ ExtraIdle
SpecTrim == InitTrim /\ [][TrimNext]_vars

InitPersist ==
    /\ StreamIdle /\ EmbedIdle /\ ChunkIdle /\ StoreInit /\ PersistIdle /\ TrimIdle /\ RagIdle
    /\ ExtraIdle
SpecPersist == InitPersist /\ [][PersistNext]_vars

InitRag ==
    /\ StreamIdle /\ EmbedIdle /\ ChunkIdle /\ StoreInit /\ PersistIdle /\ TrimIdle /\ RagInit
    /\ ExtraIdle
SpecRag == InitRag /\ [][RagNext]_vars

InitRetry ==
    /\ StreamIdle /\ EmbedIdle /\ ChunkIdle /\ StoreIdle /\ PersistIdle /\ TrimIdle /\ RagIdle
    /\ RetryInit /\ TaskIdle /\ ConcIdle
SpecRetry == InitRetry /\ [][RetryNext]_vars

InitTask ==
    /\ StreamIdle /\ EmbedIdle /\ ChunkIdle /\ StoreIdle /\ PersistIdle /\ TrimIdle /\ RagIdle
    /\ RetryIdle /\ TaskInit /\ ConcIdle
SpecTask == InitTask /\ [][TaskNext]_vars

InitConc ==
    /\ StreamIdle /\ EmbedIdle /\ ChunkIdle /\ StoreInit /\ PersistIdle /\ TrimIdle /\ RagInit
    /\ RetryIdle /\ TaskIdle /\ ConcInit
SpecConc == InitConc /\ [][ConcNext]_vars

=============================================================================
